---- MODULE Spec2Model ----
(***************************************************************************)
(* HomeHelper lifecycle orchestration: the port allocator, the application *)
(* registry and discovery, the health monitor, the Streamlit TTL manager   *)
(* and the background-process launcher, modelled from the Python sources.  *)
(* Each component has its own specification (SpecPort, SpecReg, ...): the  *)
(* variables of the other components stay at their initial values.         *)
(***************************************************************************)
EXTENDS Integers, Sequences, FiniteSets, TLC

VARIABLES
    port_end,       \* PortManager.port_end (port_start is PortStart)
    allocations,    \* PortManager.allocations: port -> PortAllocation
    app_ports,      \* PortManager.app_ports: app_id -> port
    busy,           \* ports some OS process has bound (bind() raises OSError)
    last,           \* the latest PortManager call: its name, argument, result
    fs,             \* the apps directory: directory name -> state of its manifest
    apps,           \* AppRegistry.apps: app_id -> AppRegistryEntry
    registry_file,  \* registry/apps.json: app_id -> serialized entry
    reg_last,       \* the latest AppRegistry / discovery call and its result
    hm_config,      \* HealthMonitor.config: failure_threshold, max_failures
    failure_counts, \* HealthMonitor.failure_counts: app_id -> int
    health_results, \* HealthMonitor.health_results: app_id -> status of the result
    hm_round,       \* _monitoring_loop: asleep or in a round, the checks still to run
    unhealthy,      \* apps whose /health endpoint currently fails
    hm_obs,         \* per app: rounds completed and restarts attempted since it began to fail
    hm_last,        \* the latest health check: app, outcome, restart attempt
    hm_mon,         \* _running, _monitoring_task, _session, and the tasks and sessions alive
    os_procs,       \* the host's process table: pid -> app the process was spawned for
    next_pid,       \* the pid the next Popen gets
    st_processes,   \* StreamlitManager.processes: app_id -> pid, port, idle past the TTL
    st_lock,        \* StreamlitManager.lock: the thread that holds it, 0 when free
    sweep_last,     \* the apps the latest sweep of _cleanup_loop stopped, and those it left
    releasing,      \* the sweep thread inside PortManager.release_port: its position
    threads,        \* the request threads inside launch_streamlit_app
    processes,      \* MacOSProcessManager.processes: app_id -> pid, port
    proc_last,      \* the latest MacOSProcessManager call and its result
    unit_files,     \* apps with a unit file in ~/.config/systemd/user
    services,       \* ServiceManager.services: the apps it tracks
    svc_last        \* the latest ServiceManager call, its result, the steps it tried

portVars == <<port_end, allocations, app_ports, busy, last>>

regVars == <<fs, apps, registry_file, reg_last>>

hmVars == <<hm_config, failure_counts, health_results, hm_round, unhealthy, hm_obs, hm_last,
           hm_mon>>

osVars == <<os_procs, next_pid>>

ttlVars == <<st_processes, st_lock, threads, sweep_last, releasing>>

procVars == <<processes, proc_last>>

launcherVars == <<osVars, ttlVars, procVars>>

svcVars == <<unit_files, services, svc_last>>

vars == <<portVars, regVars, hmVars, launcherVars, svcVars>>

nonPortVars == <<regVars, hmVars, launcherVars, svcVars>>

nonRegVars == <<portVars, hmVars, launcherVars, svcVars>>

\* ServiceManager.__init__: nothing is tracked, no unit file is written,
\* no call has been made.
SvcIdle ==
    /\ unit_files = {}
    /\ services = {}
    /\ svc_last = [op |-> "none", app |-> "", ret |-> FALSE, tried |-> {},
                   outcome |-> "ok", seq |-> 0]

----------------------------------------------------------------------------
(* Bounds of the model *)

MaxPorts == 2       \* the configured range holds 1..MaxPorts ports

MaxEntries == 2     \* discovery runs while the registry holds fewer entries

MaxCount == 4       \* health checks fail while the failure counter is below it

MaxPid == 3         \* Popen spawns while fewer processes than this were spawned

----------------------------------------------------------------------------
(* Python values *)

NoPort == 0         \* Python None where a port number is expected

None == "None"

EmptyMap == [x \in {} |-> x]

DelKey(f, k) == [x \in (DOMAIN f) \ {k} |-> f[x]]

Put(f, k, v) == [x \in (DOMAIN f) \cup {k} |-> IF x = k THEN v ELSE f[x]]

----------------------------------------------------------------------------
(* Port Manager (managers/port_manager.py) *)

PortStart == 8100

AppIds == {"a", "b", "c"}

AppTypeOf == [a \in AppIds |-> IF a = "a" THEN "service" ELSE "streamlit"]

AllPorts == PortStart .. (PortStart + MaxPorts - 1)

PortRange(pend) == PortStart .. pend

\* PortAllocation: allocated_at is kept as what the code reads of it, whether
\* datetime.now() - allocated_at exceeds one hour ("aged").
PortAllocation(port, app_id, app_type) ==
    [port |-> port, app_id |-> app_id, app_type |-> app_type,
     aged |-> FALSE, status |-> "allocated"]

IsPortAvailable(bnd, port) == port \notin bnd

\* The state of a PortManager and the value a call returned.
PM(al, ap, ret) == [allocations |-> al, app_ports |-> ap, ret |-> ret]

AllocateSpecificPort(al, ap, app_id, app_type, port) ==
    PM(Put(al, port, PortAllocation(port, app_id, app_type)),
       Put(ap, app_id, port), port)

ReleasePortKeepsMap(al, ap, app_id) ==
    IF app_id \notin DOMAIN ap
    THEN PM(al, ap, FALSE)
    ELSE PM(DelKey(al, ap[app_id]), ap, TRUE)

ReleasePort(al, ap, app_id) ==
    IF app_id \notin DOMAIN ap
    THEN PM(al, ap, FALSE)
    ELSE PM(DelKey(al, ap[app_id]), DelKey(ap, app_id), TRUE)

\* for port in range(port_start, port_end + 1): the first port that is not
\* allocated and can be bound, NoPort when the loop runs out.
RECURSIVE ScanFrom(_, _, _, _)
ScanFrom(port, pend, al, bnd) ==
    IF port > pend THEN NoPort
    ELSE IF port \notin DOMAIN al /\ IsPortAvailable(bnd, port) THEN port
    ELSE ScanFrom(port + 1, pend, al, bnd)

ScanIgnoresAllocations(pend, al, bnd) == ScanFrom(PortStart, pend, EmptyMap, bnd)

ScanRange(pend, al, bnd) == ScanFrom(PortStart, pend, al, bnd)

AllocateIgnoresPreferred(pend, al, ap, bnd, app_id, app_type, preferred) ==
    LET port == ScanRange(pend, al, bnd)
    IN  IF port # NoPort
        THEN AllocateSpecificPort(al, ap, app_id, app_type, port)
        ELSE PM(al, ap, NoPort)

\* allocate_port after the "already has a port" block.
AllocateFresh(pend, al, ap, bnd, app_id, app_type, preferred) ==
    IF /\ preferred # NoPort
       /\ preferred \in PortRange(pend)
       /\ preferred \notin DOMAIN al
       /\ IsPortAvailable(bnd, preferred)
    THEN AllocateSpecificPort(al, ap, app_id, app_type, preferred)
    ELSE LET port == ScanRange(pend, al, bnd)
         IN  IF port # NoPort
             THEN AllocateSpecificPort(al, ap, app_id, app_type, port)
             ELSE PM(al, ap, NoPort)

AllocateNeverReuses(pend, al, ap, bnd, app_id, app_type, preferred) ==
    LET r == ReleasePort(al, ap, app_id)
    IN  AllocateFresh(pend, r.allocations, r.app_ports, bnd,
                      app_id, app_type, preferred)

AllocatePort(pend, al, ap, bnd, app_id, app_type, preferred) ==
    IF app_id \in DOMAIN ap /\ IsPortAvailable(bnd, ap[app_id])
    THEN PM([al EXCEPT ![ap[app_id]].status = "allocated",
                       ![ap[app_id]].aged = FALSE],
            ap, ap[app_id])
    ELSE LET r == ReleasePort(al, ap, app_id)
         IN  AllocateFresh(pend, r.allocations, r.app_ports, bnd,
                           app_id, app_type, preferred)

\* Whether allocate_port takes its "Reusing existing port" branch.
Reuses(ap, bnd, app_id) ==
    app_id \in DOMAIN ap /\ IsPortAvailable(bnd, ap[app_id])

MarkPortInUse(al, ap, app_id) ==
    IF app_id \notin DOMAIN ap THEN PM(al, ap, FALSE)
    ELSE IF ap[app_id] \in DOMAIN al
         THEN PM([al EXCEPT ![ap[app_id]].status = "in_use"], ap, TRUE)
         ELSE PM(al, ap, FALSE)

StaleIgnoresAge(al, ap, bnd) ==
    {a \in DOMAIN ap : /\ al[ap[a]].status = "allocated"
                       /\ IsPortAvailable(bnd, ap[a])}

\* The stale_apps list of cleanup_stale_allocations.
StaleApps(al, ap, bnd) ==
    {a \in DOMAIN ap : /\ al[ap[a]].status = "allocated"
                       /\ IsPortAvailable(bnd, ap[a])
                       /\ al[ap[a]].aged}

\* for app_id in stale_apps: release_port(app_id); the releases touch
\* distinct keys, so their order does not matter.
CleanupStaleAllocations(al, ap, bnd) ==
    LET stale == StaleApps(al, ap, bnd)
    IN  PM([p \in (DOMAIN al) \ {ap[a] : a \in stale} |-> al[p]],
           [a \in (DOMAIN ap) \ stale |-> ap[a]],
           Cardinality(stale))

----------------------------------------------------------------------------
(* Port Manager: the operations as actions *)

Call(op, app, ret, reused) ==
    [op |-> op, app |-> app, ret |-> ret, reused |-> reused,
     pref |-> NoPort, seq |-> 1 - last.seq]

\* The ports a caller may ask for: none, any port of the widest range, and
\* one port above it.
Preferred == {NoPort} \cup AllPorts \cup {PortStart + MaxPorts}

Allocate(app_id, preferred) ==
    LET r == AllocatePort(port_end, allocations, app_ports, busy,
                          app_id, AppTypeOf[app_id], preferred)
    IN  /\ allocations' = r.allocations
        /\ app_ports' = r.app_ports
        /\ last' = [Call("allocate", app_id, r.ret,
                          Reuses(app_ports, busy, app_id))
                     EXCEPT !.pref = preferred]
        /\ UNCHANGED <<port_end, busy>>
        /\ UNCHANGED nonPortVars

Release(app_id) ==
    LET r == ReleasePort(allocations, app_ports, app_id)
    IN  /\ allocations' = r.allocations
        /\ app_ports' = r.app_ports
        /\ last' = Call("release", app_id, r.ret, FALSE)
        /\ UNCHANGED <<port_end, busy>>
        /\ UNCHANGED nonPortVars

MarkInUse(app_id) ==
    LET r == MarkPortInUse(allocations, app_ports, app_id)
    IN  /\ allocations' = r.allocations
        /\ app_ports' = r.app_ports
        /\ last' = Call("mark_in_use", app_id, r.ret, FALSE)
        /\ UNCHANGED <<port_end, busy>>
        /\ UNCHANGED nonPortVars

CleanupStale ==
    LET r == CleanupStaleAllocations(allocations, app_ports, busy)
    IN  /\ allocations' = r.allocations
        /\ app_ports' = r.app_ports
        /\ last' = Call("cleanup_stale", "", r.ret, FALSE)
        /\ UNCHANGED <<port_end, busy>>
        /\ UNCHANGED nonPortVars

\* An hour passes since some allocation's allocated_at.
AllocationAges(port) ==
    /\ port \in DOMAIN allocations
    /\ ~allocations[port].aged
    /\ allocations' = [allocations EXCEPT ![port].aged = TRUE]
    /\ UNCHANGED <<port_end, app_ports, busy, last>>
    /\ UNCHANGED nonPortVars

\* Some process of the host binds a port, or closes the socket it held.
EnvBind(port) ==
    /\ port \notin busy
    /\ busy' = busy \cup {port}
    /\ UNCHANGED <<port_end, allocations, app_ports, last>>
    /\ UNCHANGED nonPortVars

EnvClose(port) ==
    /\ port \in busy
    /\ busy' = busy \ {port}
    /\ UNCHANGED <<port_end, allocations, app_ports, last>>
    /\ UNCHANGED nonPortVars

\* The sweep thread is outside release_port.
NotReleasing == [pc |-> "idle", app |-> "", port |-> NoPort, raised |-> FALSE]

\* The variables the sweep thread's release_port leaves alone.
sweepRest == <<regVars, hmVars, svcVars, osVars, procVars, st_processes,
               st_lock, threads, sweep_last>>

\* _cleanup_app calls release_port on the sweep thread, which runs beside the
\* event loop: PortManager takes no lock, so the thread can be preempted
\* between the statements of release_port.  Up to allocation.status =
\* 'released'.
SweepMark(app_id) ==
    /\ releasing.pc = "idle"
    /\ AppTypeOf[app_id] = "streamlit"
    /\ app_id \in DOMAIN app_ports
    /\ allocations' = [allocations EXCEPT ![app_ports[app_id]].status = "released"]
    /\ releasing' = [pc |-> "marked", app |-> app_id, port |-> app_ports[app_id],
                     raised |-> FALSE]
    /\ UNCHANGED <<port_end, app_ports, busy, last>>
    /\ UNCHANGED sweepRest

\* del self.app_ports[app_id]; a KeyError ends the call in _cleanup_app's
\* except clause.
SweepUnmap ==
    /\ releasing.pc = "marked"
    /\ IF releasing.app \in DOMAIN app_ports
       THEN /\ app_ports' = DelKey(app_ports, releasing.app)
            /\ releasing' = [releasing EXCEPT !.pc = "unmapped"]
       ELSE /\ app_ports' = app_ports
            /\ releasing' = [NotReleasing EXCEPT !.raised = TRUE]
    /\ UNCHANGED <<port_end, allocations, busy, last>>
    /\ UNCHANGED sweepRest

\* del self.allocations[port], and the return.
SweepDelete ==
    /\ releasing.pc = "unmapped"
    /\ IF releasing.port \in DOMAIN allocations
       THEN /\ allocations' = DelKey(allocations, releasing.port)
            /\ releasing' = NotReleasing
       ELSE /\ allocations' = allocations
            /\ releasing' = [NotReleasing EXCEPT !.raised = TRUE]
    /\ UNCHANGED <<port_end, app_ports, busy, last>>
    /\ UNCHANGED sweepRest

PortInit ==
    /\ port_end \in AllPorts
    /\ allocations = EmptyMap
    /\ app_ports = EmptyMap
    /\ busy = {}
    /\ last = [op |-> "none", app |-> "", ret |-> NoPort, reused |-> FALSE,
               pref |-> NoPort, seq |-> 0]

PortNext ==
    \/ \E a \in AppIds, pref \in Preferred : Allocate(a, pref)
    \/ \E a \in AppIds : Release(a)
    \/ \E a \in AppIds : MarkInUse(a)
    \/ CleanupStale
    \/ \E p \in AllPorts : AllocationAges(p)
    \/ \E p \in AllPorts : EnvBind(p)
    \/ \E p \in AllPorts : EnvClose(p)

\* The event loop's PortManager calls beside the sweep thread's release.
\* A Streamlit app is allocated its port by launch_streamlit_app under the
\* StreamlitManager lock, which the sweep thread holds while it releases; a
\* service's port is allocated by prepare_app, and the unregister and
\* cleanup endpoints release, without that lock.
RaceNext ==
    \/ \E a \in AppIds, pref \in Preferred :
          /\ AppTypeOf[a] = "streamlit" => releasing.pc = "idle"
          /\ Allocate(a, pref)
    \/ \E a \in AppIds : Release(a)
    \/ \E a \in AppIds : MarkInUse(a)
    \/ CleanupStale
    \/ \E p \in AllPorts : AllocationAges(p)
    \/ \E p \in AllPorts : EnvBind(p)
    \/ \E p \in AllPorts : EnvClose(p)
    \/ \E a \in AppIds : SweepMark(a)
    \/ SweepUnmap
    \/ SweepDelete

----------------------------------------------------------------------------
(* Application registry and discovery (managers/app_manager.py) *)

\* Directory names under apps/, as sequences of characters.
DirUpper == <<"A", "_", "b">>

DirLower == <<"a", "-", "b">>

Dirs == {DirUpper, DirLower}

Versions == {"1.0.0", "1.1.0"}

\* What a directory holds: no homehelper.json, a manifest that validates with
\* its main file present (its version), or one that is rejected.
Rejected == {"missing_version", "bad_version", "no_main_file"}

ManifestStates == {"none"} \cup Versions \cup Rejected

TypeOfDir == [d \in Dirs |-> IF d = DirUpper THEN "service" ELSE "streamlit"]

\* A str-Enum member and a plain str: both occur as entry.status.
EnumStatus(v) == [cls |-> "AppStatus", value |-> v]

StrStatus(v) == [cls |-> "str", value |-> v]

PathOf(d) == [cls |-> "Path", value |-> d]

\* A datetime object, known by the text isoformat() gives for it.
DateTime(iso) == [cls |-> "datetime", iso |-> iso]

\* datetime.now(): the model has one instant.
Now == DateTime("now")

\* Python None where a datetime is expected.
NoTime == [cls |-> "NoneType", iso |-> ""]

\* The description a manifest of some version carries.
DescriptionOf(version) == <<"notes of", version>>

\* A validated AppManifest object with the given fields.
ManifestObject(name, type, version) ==
    [cls |-> "AppManifest", name |-> name, type |-> type,
     description |-> DescriptionOf(version), version |-> version,
     config |-> [has_UI |-> (type = "service")]]

AppManifest(d, version) == ManifestObject(d, TypeOfDir[d], version)

AppRuntimeInfo ==
    [assigned_port |-> NoPort, process_id |-> None, started_at |-> NoTime,
     last_health_check |-> NoTime, error_message |-> None]

\* _parse_manifest: the manifest, or None (NoManifest) when pydantic rejects
\* it or the main file is missing.
NoManifest == [type |-> None, version |-> None, config |-> None]

ParseIgnoresMainFile(d, st) ==
    IF st \in Versions THEN AppManifest(d, st)
    ELSE IF st = "no_main_file" THEN AppManifest(d, "1.0.0")
    ELSE NoManifest

ParseManifest(d, st) == IF st \in Versions THEN AppManifest(d, st) ELSE NoManifest

Lower(c) == CASE c = "A" -> "a" [] c = "B" -> "b" [] OTHER -> c

Hyphenate(c) == IF c = " " \/ c = "_" THEN "-" ELSE c

\* dir_name.lower().replace(' ', '-').replace('_', '-')
BaseId(dir_name) == [i \in 1 .. Len(dir_name) |-> Hyphenate(Lower(dir_name[i]))]

Digit == <<"0", "1", "2", "3", "4", "5", "6", "7", "8", "9">>

RECURSIVE IntToStr(_)
IntToStr(n) ==
    IF n < 10 THEN <<Digit[n + 1]>>
    ELSE IntToStr(n \div 10) \o <<Digit[(n % 10) + 1]>>

\* while self.registry.get_app(app_id): app_id = f"{base_id}-{counter}"
RECURSIVE NextFreeId(_, _, _)
NextFreeId(base_id, counter, reg) ==
    LET app_id == base_id \o <<"-">> \o IntToStr(counter)
    IN  IF app_id \in DOMAIN reg
        THEN NextFreeId(base_id, counter + 1, reg)
        ELSE app_id

GenerateAppId(reg, dir_name) ==
    IF BaseId(dir_name) \in DOMAIN reg
    THEN NextFreeId(BaseId(dir_name), 1, reg)
    ELSE BaseId(dir_name)

AppRegistryEntry(app_id, d, manifest) ==
    [app_id |-> app_id, name |-> manifest.name, type |-> manifest.type,
     description |-> manifest.description, version |-> manifest.version,
     status |-> EnumStatus("discovered"), path |-> PathOf(d),
     manifest |-> manifest, runtime_info |-> AppRuntimeInfo,
     discovered_at |-> Now, last_updated |-> Now]

AppTypes == {"service", "streamlit"}

AppStatuses == {"discovered", "installing", "ready", "starting", "running",
                "stopping", "stopped", "error"}

\* datetime.isoformat and datetime.fromisoformat; the latter raises on a
\* text that is no ISO timestamp.
IsoFormat(dt) == dt.iso

IsoTexts == {"now", "2024-01-01T00:00:00", "2024-06-30T12:30:00.500000"}

FromIsoFormat(text) == DateTime(text)

\* An optional timestamp: None stays None both ways.
OptIsoFormat(dt) == IF dt = NoTime THEN None ELSE IsoFormat(dt)

OptFromIsoFormatDropsTime(text) == NoTime

OptFromIsoFormat(text) == IF text = None THEN NoTime ELSE FromIsoFormat(text)

\* AppRuntimeInfo.to_dict / from_dict
RuntimeToDict(info) ==
    [info EXCEPT !.started_at = OptIsoFormat(info.started_at),
                 !.last_health_check = OptIsoFormat(info.last_health_check)]

RuntimeFromDict(data) ==
    [data EXCEPT !.started_at = OptFromIsoFormat(data.started_at),
                 !.last_health_check = OptFromIsoFormat(data.last_health_check)]

\* AppManifest.model_dump and AppManifest(**data): the object's fields as a
\* dict, and a validated object from a dict.
ModelDump(manifest) == [k \in DOMAIN manifest \ {"cls"} |-> manifest[k]]

ManifestFromDict(data) ==
    [k \in DOMAIN data \cup {"cls"} |->
        IF k = "cls" THEN "AppManifest" ELSE data[k]]

\* AppRegistryEntry.to_dict / from_dict: the path becomes a str and back a
\* Path, the status its value and back an AppStatus member, the manifest a
\* dict and back an AppManifest, the timestamps ISO texts and back datetimes.
ToDict(entry) ==
    [entry EXCEPT !.path = entry.path.value,
                  !.status = entry.status.value,
                  !.manifest = ModelDump(entry.manifest),
                  !.runtime_info = RuntimeToDict(entry.runtime_info),
                  !.discovered_at = IsoFormat(entry.discovered_at),
                  !.last_updated = IsoFormat(entry.last_updated)]

FromDict(data) ==
    [data EXCEPT !.path = PathOf(data.path),
                 !.status = EnumStatus(data.status),
                 !.manifest = ManifestFromDict(data.manifest),
                 !.runtime_info = RuntimeFromDict(data.runtime_info),
                 !.discovered_at = FromIsoFormat(data.discovered_at),
                 !.last_updated = FromIsoFormat(data.last_updated)]

\* from_dict returns instead of raising: every text that is to be a
\* timestamp parses, type and status name enum members, the manifest
\* validates.
Deserializes(data) ==
    /\ data.manifest.type \in AppTypes
    /\ data.manifest.version \in Versions
    /\ data.runtime_info.started_at \in IsoTexts \cup {None}
    /\ data.runtime_info.last_health_check \in IsoTexts \cup {None}
    /\ data.discovered_at \in IsoTexts
    /\ data.last_updated \in IsoTexts
    /\ data.type \in AppTypes
    /\ data.status \in AppStatuses

Serialized(reg) == [id \in DOMAIN reg |-> ToDict(reg[id])]

LoadAbortsOnBadEntry(file, readable) ==
    IF readable /\ \A id \in DOMAIN file : Deserializes(file[id])
    THEN [id \in DOMAIN file |-> FromDict(file[id])]
    ELSE EmptyMap

\* _load_registry: the entries of apps.json that from_dict accepts; nothing
\* when the file cannot be opened or parsed. A missing file is an empty one.
LoadRegistry(file, readable) ==
    IF readable
    THEN [id \in {i \in DOMAIN file : Deserializes(file[i])} |-> FromDict(file[id])]
    ELSE EmptyMap

\* The state of an AppRegistry after a call: the cache, the file, the value
\* returned, and whether _save_registry ran into its except branch.
Reg(reg, file, ret, save_failed) ==
    [apps |-> reg, file |-> file, ret |-> ret, save_failed |-> save_failed]

\* _save_registry: writes apps.tmp and replaces apps.json with it; when either
\* raises, the exception is logged and the file stays as it was.
SaveRegistry(reg, file, disk_ok) == IF disk_ok THEN Serialized(reg) ELSE file

RegisterApp(reg, file, entry, disk_ok) ==
    LET reg2 == Put(reg, entry.app_id, entry)
    IN  Reg(reg2, SaveRegistry(reg2, file, disk_ok), TRUE, ~disk_ok)

\* update_app(app_id, **kwargs): kwargs is a function from field names.
UpdateApp(reg, file, app_id, kwargs, disk_ok) ==
    IF app_id \notin DOMAIN reg
    THEN Reg(reg, file, FALSE, FALSE)
    ELSE LET entry == [k \in DOMAIN reg[app_id] |->
                          IF k \in DOMAIN kwargs THEN kwargs[k]
                          ELSE IF k = "last_updated" THEN Now
                          ELSE reg[app_id][k]]
             reg2 == [reg EXCEPT ![app_id] = entry]
         IN  Reg(reg2, SaveRegistry(reg2, file, disk_ok), TRUE, ~disk_ok)

UnregisterApp(reg, file, app_id, disk_ok) ==
    IF app_id \in DOMAIN reg
    THEN LET reg2 == DelKey(reg, app_id)
         IN  Reg(reg2, SaveRegistry(reg2, file, disk_ok), TRUE, ~disk_ok)
    ELSE Reg(reg, file, FALSE, FALSE)

\* _update_existing_app
UpdateExistingApp(reg, file, app_id, manifest, d, disk_ok) ==
    UpdateApp(reg, file, app_id,
              [k \in {"manifest", "path", "version", "description", "status"} |->
                  CASE k = "manifest" -> manifest
                    [] k = "path" -> PathOf(d)
                    [] k = "version" -> manifest.version
                    [] k = "description" -> manifest.description
                    [] k = "status" -> EnumStatus("discovered")],
              disk_ok)

\* One turn of discover_apps' loop over apps_dir.iterdir(); st holds the
\* registry, the file and discovered_count.
DiscoverOne(st, d, tree, disk_ok) ==
    LET manifest == ParseManifest(d, tree[d])
        app_id == GenerateAppId(st.apps, d)
    IN  IF tree[d] = "none" \/ manifest = NoManifest THEN st
        ELSE IF app_id \in DOMAIN st.apps
        THEN IF \/ st.apps[app_id].path # PathOf(d)
                \/ st.apps[app_id].version # manifest.version
             THEN LET r == UpdateExistingApp(st.apps, st.file, app_id,
                                             manifest, d, disk_ok)
                  IN  [st EXCEPT !.apps = r.apps, !.file = r.file,
                                 !.save_failed = st.save_failed \/ r.save_failed]
             ELSE st
        ELSE LET r == RegisterApp(st.apps, st.file,
                                  AppRegistryEntry(app_id, d, manifest), disk_ok)
             IN  [apps |-> r.apps, file |-> r.file,
                  ret |-> IF r.ret THEN st.ret + 1 ELSE st.ret,
                  save_failed |-> st.save_failed \/ r.save_failed]

\* discover_apps: the directories in the order iterdir() yields them; the
\* saves of the directories in failing raise inside _save_registry.
RECURSIVE DiscoverApps(_, _, _, _)
DiscoverApps(st, order, tree, failing) ==
    IF order = <<>> THEN st
    ELSE DiscoverApps(DiscoverOne(st, Head(order), tree, Head(order) \notin failing),
                      Tail(order), tree, failing)

Orders == {<<DirUpper, DirLower>>, <<DirLower, DirUpper>>}

ValidDirs(tree) == {d \in Dirs : tree[d] \in Versions}

----------------------------------------------------------------------------
(* Registry and discovery: the operations as actions *)

RegCall(op, r) ==
    [op |-> op, ret |-> r.ret, save_failed |-> r.save_failed,
     seq |-> 1 - reg_last.seq]

Discover(order, failing) ==
    LET r == DiscoverApps(Reg(apps, registry_file, 0, FALSE), order, fs, failing)
    IN  /\ Cardinality(DOMAIN apps) + Cardinality(ValidDirs(fs)) <= MaxEntries
        /\ apps' = r.apps
        /\ registry_file' = r.file
        /\ reg_last' = RegCall("discover", r)
        /\ UNCHANGED fs
        /\ UNCHANGED nonRegVars

UpdateStatuses == {StrStatus("running")}

Update(app_id, status, disk_ok) ==
    LET r == UpdateApp(apps, registry_file, app_id,
                       [k \in {"status"} |-> status], disk_ok)
    IN  /\ apps' = r.apps
        /\ registry_file' = r.file
        /\ reg_last' = RegCall("update", r)
        /\ UNCHANGED fs
        /\ UNCHANGED nonRegVars

Unregister(app_id, disk_ok) ==
    LET r == UnregisterApp(apps, registry_file, app_id, disk_ok)
    IN  /\ apps' = r.apps
        /\ registry_file' = r.file
        /\ reg_last' = RegCall("unregister", r)
        /\ UNCHANGED fs
        /\ UNCHANGED nonRegVars

\* register_app called on its own, with an entry built from a directory.
Register(d, disk_ok) ==
    LET entry == AppRegistryEntry(BaseId(d), d, AppManifest(d, "1.0.0"))
        r == RegisterApp(apps, registry_file, entry, disk_ok)
    IN  /\ Cardinality(DOMAIN apps) < MaxEntries
        /\ apps' = r.apps
        /\ registry_file' = r.file
        /\ reg_last' = RegCall("register", r)
        /\ UNCHANGED fs
        /\ UNCHANGED nonRegVars

\* Somebody edits the apps directory: a manifest appears, changes or goes.
\* The edit is noted in reg_last: the latest call no longer saw this tree.
FsChange(d, st) ==
    /\ fs[d] # st
    /\ fs' = [fs EXCEPT ![d] = st]
    /\ reg_last' = [reg_last EXCEPT !.op = "fs_change"]
    /\ UNCHANGED <<apps, registry_file>>
    /\ UNCHANGED nonRegVars

\* The ids discovery can produce within MaxEntries entries.
KnownIds == {BaseId(DirUpper)} \cup
            {BaseId(DirUpper) \o <<"-">> \o IntToStr(n) : n \in 1 .. MaxEntries}

RegInit ==
    /\ fs = [d \in Dirs |-> "none"]
    /\ apps = EmptyMap
    /\ registry_file = EmptyMap
    /\ reg_last = [op |-> "none", ret |-> FALSE, save_failed |-> FALSE,
                   seq |-> 0]

\* The registry's own methods, on a disk that may fail any write.
RegNext ==
    \/ \E id \in KnownIds, st \in UpdateStatuses, ok \in BOOLEAN : Update(id, st, ok)
    \/ \E id \in KnownIds, ok \in BOOLEAN : Unregister(id, ok)
    \/ \E d \in Dirs, ok \in BOOLEAN : Register(d, ok)

\* Discovery over a directory tree that is edited between scans.
DiscNext ==
    \/ \E order \in Orders, failing \in {{}, Dirs} : Discover(order, failing)
    \/ \E id \in KnownIds, st \in UpdateStatuses : Update(id, st, TRUE)
    \/ \E d \in Dirs, st \in ManifestStates : FsChange(d, st)

\* discover_apps registers what it found in one directory not seen before.
Install(d) ==
    LET entry == AppRegistryEntry(GenerateAppId(apps, d), d, AppManifest(d, "1.0.0"))
        r == RegisterApp(apps, registry_file, entry, TRUE)
    IN  /\ Cardinality(DOMAIN apps) < MaxEntries
        /\ apps' = r.apps
        /\ registry_file' = r.file
        /\ reg_last' = RegCall("register", r)
        /\ UNCHANGED fs
        /\ UNCHANGED nonRegVars

\* The status values callers pass to update_app: the members of AppStatus,
\* and the plain strings the launchers write.
AnyStatus == {EnumStatus(v) : v \in AppStatuses} \cup
             {StrStatus(v) : v \in {"discovered", "running", "stopped"}}

\* The optional timestamps of a runtime info, each absent or present.
OptTimes == {NoTime, DateTime("2024-06-30T12:30:00.500000")}

\* The entries a registry can hold for a directory after the launchers and
\* the health monitor have called update_app(status=..., runtime_info=...).
EntryVariants(app_id, d) ==
    {[AppRegistryEntry(app_id, d, AppManifest(d, "1.0.0")) EXCEPT
          !.status = st,
          !.runtime_info.started_at = t1,
          !.runtime_info.last_health_check = t2] :
        st \in AnyStatus, t1 \in OptTimes, t2 \in OptTimes}

\* What can be wrong with one entry of apps.json.
Damages == {"status", "discovered_at", "started_at", "manifest"}

Damaged(data, kind) ==
    CASE kind = "status" -> [data EXCEPT !.status = "bogus"]
      [] kind = "discovered_at" -> [data EXCEPT !.discovered_at = "yesterday"]
      [] kind = "started_at" -> [data EXCEPT !.runtime_info.started_at = "yesterday"]
      [] kind = "manifest" -> [data EXCEPT !.manifest.version = "1.x"]

\* An entry of apps.json is edited, or written by another version of the
\* program, into something from_dict raises on.
Damage(app_id, kind) ==
    /\ app_id \in DOMAIN registry_file
    /\ Deserializes(registry_file[app_id])
    /\ registry_file' = [registry_file EXCEPT ![app_id] = Damaged(@, kind)]
    /\ reg_last' = [reg_last EXCEPT !.op = "damage"]
    /\ UNCHANGED <<fs, apps>>
    /\ UNCHANGED nonRegVars

\* The process starts again: AppRegistry.__init__ runs _load_registry on an
\* empty cache. ret tells whether apps.json could be opened and parsed.
Load(readable) ==
    /\ apps' = LoadRegistry(registry_file, readable)
    /\ reg_last' = RegCall("load", Reg(apps', registry_file, readable, FALSE))
    /\ UNCHANGED <<fs, registry_file>>
    /\ UNCHANGED nonRegVars

\* A registry whose file gets damaged between runs of the process.
LoadNext ==
    \/ \E d \in Dirs : Install(d)
    \/ \E id \in KnownIds, st \in UpdateStatuses : Update(id, st, TRUE)
    \/ \E id \in KnownIds, kind \in Damages : Damage(id, kind)
    \/ \E readable \in BOOLEAN : Load(readable)

\* A registry that holds a service and a streamlit entry, of any status and
\* with or without timestamps, and has saved them.
CodecInit ==
    /\ fs = [d \in Dirs |-> "none"]
    /\ \E e1 \in EntryVariants(BaseId(DirUpper), DirUpper),
          e2 \in EntryVariants(BaseId(DirUpper) \o <<"-", "1">>, DirLower) :
          apps = Put(Put(EmptyMap, e1.app_id, e1), e2.app_id, e2)
    /\ registry_file = Serialized(apps)
    /\ reg_last = [op |-> "none", ret |-> FALSE, save_failed |-> FALSE,
                   seq |-> 0]

\* The saved entries are loaded by the next instance, which goes on to
\* update them.
CodecNext ==
    \/ \E id \in KnownIds, st \in UpdateStatuses : Update(id, st, TRUE)
    \/ \E readable \in BOOLEAN : Load(readable)

----------------------------------------------------------------------------
(* Health Monitor (managers/health_monitor.py) *)

HealthApps == {"a", "b"}

\* A registered service app with a health endpoint, as a launcher leaves it.
ServiceEntry(app_id, port) ==
    [app_id |-> app_id, name |-> <<app_id>>, type |-> "service",
     description |-> DescriptionOf("1.0.0"), version |-> "1.0.0",
     status |-> EnumStatus("running"), path |-> PathOf(<<app_id>>),
     manifest |-> ManifestObject(<<app_id>>, "service", "1.0.0"),
     runtime_info |-> [AppRuntimeInfo EXCEPT !.assigned_port = port],
     discovered_at |-> Now, last_updated |-> Now]

HealthCheckConfig == [max_failures |-> 3, failure_threshold |-> 2]

\* What a GET /health can end in: a 200 whose body says good, warning or
\* error, a 200 with another body, another status code, a timeout, a
\* connection error.
Passing == {"good", "warning"}

Failing == {"error", "unknown", "http_500", "timeout", "refused"}

\* The monitor's tables and the registry during a check; restarted tells
\* whether restart_service was called and restart_ok what it returned.
HM(reg, file, counts, results, restarted, restart_ok) ==
    [apps |-> reg, file |-> file, failure_counts |-> counts,
     health_results |-> results, restarted |-> restarted,
     restart_ok |-> restart_ok]

GetCount(counts, app_id) == IF app_id \in DOMAIN counts THEN counts[app_id] ELSE 0

\* ServiceManager.restart_service: systemctl restart; on exit code 0 the
\* registry status becomes running.
RestartService(reg, file, app_id, systemctl_ok) ==
    IF systemctl_ok
    THEN LET r == UpdateApp(reg, file, app_id,
                            [k \in {"status"} |-> EnumStatus("running")], TRUE)
         IN  Reg(r.apps, r.file, TRUE, FALSE)
    ELSE Reg(reg, file, FALSE, FALSE)

AttemptRestartAlwaysResets(st, app_id, systemctl_ok) ==
    LET r == RestartService(st.apps, st.file, app_id, systemctl_ok)
    IN  [st EXCEPT !.apps = r.apps, !.file = r.file,
                   !.failure_counts = Put(st.failure_counts, app_id, 0),
                   !.restarted = TRUE, !.restart_ok = r.ret]

\* _attempt_service_restart
AttemptServiceRestart(st, app_id, systemctl_ok) ==
    LET r == RestartService(st.apps, st.file, app_id, systemctl_ok)
    IN  [st EXCEPT !.apps = r.apps, !.file = r.file,
                   !.failure_counts = IF r.ret
                                      THEN Put(st.failure_counts, app_id, 0)
                                      ELSE st.failure_counts,
                   !.restarted = TRUE, !.restart_ok = r.ret]

\* The registry write of _handle_health_check_failure at the threshold.
MarkError(st, app_id) ==
    IF app_id \in DOMAIN st.apps
    THEN LET info == [st.apps[app_id].runtime_info EXCEPT
                          !.error_message = "Health check failures"]
             r == UpdateApp(st.apps, st.file, app_id,
                            [k \in {"status", "runtime_info"} |->
                                IF k = "status" THEN EnumStatus("error") ELSE info],
                            TRUE)
         IN  [st EXCEPT !.apps = r.apps, !.file = r.file]
    ELSE st

\* _handle_health_check_failure
HandleHealthCheckFailure(st, cfg, app_id, systemctl_ok) ==
    LET n == GetCount(st.failure_counts, app_id) + 1
        st1 == [st EXCEPT !.failure_counts = Put(st.failure_counts, app_id, n),
                          !.health_results = Put(st.health_results, app_id, "error")]
    IN  IF n >= cfg.failure_threshold
        THEN IF n >= cfg.max_failures
             THEN AttemptServiceRestart(MarkError(st1, app_id), app_id, systemctl_ok)
             ELSE MarkError(st1, app_id)
        ELSE st1

\* The registry write that ends the 200 branch of _check_app_health.
StampHealthCheck(st, app_id) ==
    LET info == [st.apps[app_id].runtime_info EXCEPT !.last_health_check = Now]
        r == UpdateApp(st.apps, st.file, app_id,
                       [k \in {"runtime_info"} |-> info], TRUE)
    IN  [st EXCEPT !.apps = r.apps, !.file = r.file]

\* _check_app_health from the response to its last await: the result and
\* the counter are written, a failure is handled.
CheckResponse(st, cfg, app_id, outcome, systemctl_ok) ==
    IF outcome \in Passing
    THEN [st EXCEPT !.health_results = Put(st.health_results, app_id, outcome),
                    !.failure_counts = Put(st.failure_counts, app_id, 0)]
    ELSE IF outcome \in {"error", "unknown"}
    THEN HandleHealthCheckFailure(
             [st EXCEPT !.health_results = Put(st.health_results, app_id, outcome)],
             cfg, app_id, systemctl_ok)
    ELSE HandleHealthCheckFailure(st, cfg, app_id, systemctl_ok)

\* The outcomes of the 200 branch, which ends with the registry write.
Stamped(outcome) == outcome \in Passing \cup {"error", "unknown"}

\* _check_app_health
CheckAppHealth(st, cfg, app_id, outcome, systemctl_ok) ==
    IF \/ app_id \notin DOMAIN st.apps
       \/ st.apps[app_id].runtime_info.assigned_port = NoPort
    THEN st
    ELSE LET r == CheckResponse(st, cfg, app_id, outcome, systemctl_ok)
         IN  IF Stamped(outcome) THEN StampHealthCheck(r, app_id) ELSE r

\* self.apps in insertion order, as get_apps_by_type walks it.
RegistryKeys == <<"a", "b">>

\* running_apps of _perform_health_checks.
RunningApps(reg) ==
    SelectSeq(RegistryKeys, LAMBDA a : /\ a \in DOMAIN reg
                                       /\ reg[a].type = "service"
                                       /\ reg[a].status.value = "running")

\* The apps of the tasks list, in its order.
TaskApps(reg, running) ==
    SelectSeq(running, LAMBDA a : reg[a].manifest.config.has_UI)

\* app_id = running_apps[i].app_id for the result i of the task of app_id.
Blamed(reg, running, app_id) ==
    LET tasks == TaskApps(reg, running)
    IN  running[CHOOSE i \in 1..Len(tasks) : tasks[i] = app_id]

\* _perform_health_checks: the apps a round creates a task for.
Monitored(reg) ==
    {a \in DOMAIN reg : /\ reg[a].type = "service"
                        /\ reg[a].status.value = "running"
                        /\ reg[a].manifest.config.has_UI}

----------------------------------------------------------------------------
(* Health Monitor: the loop and its environment as actions *)

\* An app that is not being watched for the escalation of its failures.
Unwatched == [watched |-> FALSE, rounds |-> 0, restarts |-> 0, restart_ok |-> FALSE]

\* The loop outside a round: asleep, or "off" when no loop task lives.
NoRound(phase) ==
    [phase |-> phase, pending |-> {}, running |-> <<>>, raised |-> {},
     grace |-> EmptyMap]

\* _monitoring_loop wakes up and _perform_health_checks creates its tasks.
BeginRound ==
    /\ hm_round.phase = "sleep"
    /\ hm_mon.running
    /\ hm_round' = [phase |-> "round", pending |-> Monitored(apps),
                    running |-> RunningApps(apps), raised |-> {},
                    grace |-> EmptyMap]
    /\ UNCHANGED <<hm_config, failure_counts, health_results, unhealthy, hm_obs,
                   hm_last, hm_mon>>
    /\ UNCHANGED <<portVars, regVars, launcherVars, svcVars>>

\* One task of the round runs _check_app_health, to its end or, when it
\* restarted the service, to the sleep that follows a successful restart.
CheckApp(app_id, outcome, systemctl_ok) ==
    /\ hm_round.phase = "round"
    /\ app_id \in hm_round.pending
    /\ outcome \in (IF hm_mon.session # "open" THEN {"refused"}
                    ELSE IF app_id \in unhealthy THEN Failing ELSE Passing)
    /\ outcome \in Failing => GetCount(failure_counts, app_id) < MaxCount
    /\ \E whole \in {CheckAppHealth(HM(apps, registry_file, failure_counts,
                                        health_results, FALSE, FALSE),
                                     hm_config, app_id, outcome, systemctl_ok)} :
       \E st \in {IF whole.restarted /\ whole.restart_ok
                  THEN CheckResponse(HM(apps, registry_file, failure_counts,
                                        health_results, FALSE, FALSE),
                                     hm_config, app_id, outcome, systemctl_ok)
                  ELSE whole} :
          /\ apps' = st.apps
          /\ registry_file' = st.file
          /\ failure_counts' = st.failure_counts
          /\ health_results' = st.health_results
          /\ hm_round' = [hm_round EXCEPT
                              !.pending = @ \ {app_id},
                              !.grace = IF st.restarted /\ st.restart_ok
                                        THEN Put(@, app_id, Stamped(outcome))
                                        ELSE @]
          /\ hm_obs' = IF st.restarted /\ hm_obs[app_id].watched
                       THEN [hm_obs EXCEPT ![app_id].restarts = @ + 1,
                                           ![app_id].restart_ok = st.restart_ok]
                       ELSE hm_obs
          /\ hm_last' = [app |-> app_id, outcome |-> outcome,
                         restarted |-> st.restarted,
                         restart_ok |-> st.restart_ok]
    /\ UNCHANGED <<hm_config, unhealthy, hm_mon, fs, reg_last>>
    /\ UNCHANGED <<portVars, launcherVars, svcVars>>

\* The sleep after a successful restart is over: the task returns through
\* _handle_health_check_failure and the 200 branch writes the registry.
CheckResume(app_id) ==
    LET st0 == HM(apps, registry_file, failure_counts, health_results,
                  FALSE, FALSE)
        st == IF hm_round.grace[app_id] THEN StampHealthCheck(st0, app_id) ELSE st0
    IN  /\ app_id \in DOMAIN hm_round.grace
        /\ apps' = st.apps
        /\ registry_file' = st.file
        /\ hm_round' = [hm_round EXCEPT !.grace = DelKey(@, app_id)]
        /\ UNCHANGED <<hm_config, failure_counts, health_results, unhealthy,
                       hm_obs, hm_last, hm_mon, fs, reg_last>>
        /\ UNCHANGED <<portVars, launcherVars, svcVars>>

\* The task of an app ends in an exception that _check_app_health did not
\* catch: gather keeps it as the task's result.
CheckRaises(app_id) ==
    /\ hm_round.phase = "round"
    /\ app_id \in hm_round.pending
    /\ hm_round' = [hm_round EXCEPT !.pending = @ \ {app_id},
                                    !.raised = @ \cup {app_id}]
    /\ hm_last' = [app |-> app_id, outcome |-> "raise", restarted |-> FALSE,
                   restart_ok |-> FALSE]
    /\ UNCHANGED <<hm_config, failure_counts, health_results, unhealthy, hm_obs,
                   hm_mon>>
    /\ UNCHANGED <<portVars, regVars, launcherVars, svcVars>>

\* gather has returned; the loop over its results reaches the exception of
\* the task of app_id and handles it as a failure of running_apps[i].
HandleRaised(app_id, systemctl_ok) ==
    /\ hm_round.phase = "round"
    /\ hm_round.pending = {}
    /\ DOMAIN hm_round.grace = {}
    /\ app_id \in hm_round.raised
    /\ \E target \in {Blamed(apps, hm_round.running, app_id)} :
          /\ GetCount(failure_counts, target) < MaxCount
          /\ \E st \in {HandleHealthCheckFailure(
                            HM(apps, registry_file, failure_counts,
                               health_results, FALSE, FALSE),
                            hm_config, target, systemctl_ok)} :
                /\ apps' = st.apps
                /\ registry_file' = st.file
                /\ failure_counts' = st.failure_counts
                /\ health_results' = st.health_results
                /\ hm_last' = [app |-> target, outcome |-> "raised",
                               restarted |-> st.restarted,
                               restart_ok |-> st.restart_ok]
    /\ hm_round' = [hm_round EXCEPT !.raised = @ \ {app_id}]
    /\ UNCHANGED <<hm_config, unhealthy, hm_obs, hm_mon, fs, reg_last>>
    /\ UNCHANGED <<portVars, launcherVars, svcVars>>

\* asyncio.gather returned: the round is over and the loop sleeps. An app
\* watched through three rounds is watched no longer.
EndRound ==
    /\ hm_round.phase = "round"
    /\ hm_round.pending = {}
    /\ hm_round.raised = {}
    /\ DOMAIN hm_round.grace = {}
    /\ hm_round' = NoRound("sleep")
    /\ hm_obs' = [a \in HealthApps |->
                    IF ~hm_obs[a].watched THEN hm_obs[a]
                    ELSE IF hm_obs[a].rounds = 3 THEN Unwatched
                    ELSE [hm_obs[a] EXCEPT !.rounds = @ + 1]]
    /\ UNCHANGED <<hm_config, failure_counts, health_results, unhealthy, hm_last,
                   hm_mon>>
    /\ UNCHANGED <<portVars, regVars, launcherVars, svcVars>>

\* An app's health endpoint starts to fail. When that happens between rounds
\* to a running app with no failures counted, its escalation is watched.
EnvFail(app_id) ==
    /\ app_id \notin unhealthy
    /\ unhealthy' = unhealthy \cup {app_id}
    /\ hm_obs' = [hm_obs EXCEPT ![app_id] =
                    [Unwatched EXCEPT !.watched =
                        /\ hm_round.phase = "sleep"
                        /\ app_id \in Monitored(apps)
                        /\ GetCount(failure_counts, app_id) = 0]]
    /\ UNCHANGED <<hm_config, failure_counts, health_results, hm_round, hm_last,
                   hm_mon>>
    /\ UNCHANGED <<portVars, regVars, launcherVars, svcVars>>

EnvRecover(app_id) ==
    /\ app_id \in unhealthy
    /\ unhealthy' = unhealthy \ {app_id}
    /\ hm_obs' = [hm_obs EXCEPT ![app_id] = Unwatched]
    /\ UNCHANGED <<hm_config, failure_counts, health_results, hm_round, hm_last,
                   hm_mon>>
    /\ UNCHANGED <<portVars, regVars, launcherVars, svcVars>>

\* An operator starts the service again (ServiceManager.start_service with
\* systemctl exiting 0): the registry status becomes running.
OperatorStart(app_id) ==
    LET r == UpdateApp(apps, registry_file, app_id,
                       [k \in {"status"} |-> EnumStatus("running")], TRUE)
    IN  /\ app_id \in DOMAIN apps
        /\ apps[app_id].status.value # "running"
        /\ apps' = r.apps
        /\ registry_file' = r.file
        /\ hm_obs' = [hm_obs EXCEPT ![app_id] = Unwatched]
        /\ UNCHANGED <<hm_config, failure_counts, health_results, hm_round, unhealthy,
                       hm_last, hm_mon>>
        /\ UNCHANGED <<fs, reg_last>>
        /\ UNCHANGED <<portVars, launcherVars, svcVars>>

\* HealthMonitor.__init__: nothing runs, no task, no session; loops and
\* sessions count the loop tasks alive and the HTTP sessions open, op is the
\* latest of start_monitoring and stop_monitoring, aborted whether that
\* stop cancelled checks in flight.
MonIdle ==
    [running |-> FALSE, task |-> "none", session |-> "none", loops |-> 0,
     sessions |-> 0, op |-> "none", aborted |-> FALSE, seq |-> 0,
     stopping |-> "none"]

StartAlwaysStarts(mon) ==
    [mon EXCEPT !.running = TRUE, !.session = "open", !.sessions = @ + 1,
                !.task = "active", !.loops = @ + 1]

\* start_monitoring
StartMon(mon) ==
    IF mon.running THEN mon
    ELSE [mon EXCEPT !.running = TRUE, !.session = "open", !.sessions = @ + 1,
                     !.task = "active", !.loops = @ + 1]

\* stop_monitoring: the flag, the cancelled and awaited loop task, the
\* closed and cleared session.
StopMon(mon) ==
    IF ~mon.running THEN mon
    ELSE LET m1 == [mon EXCEPT !.running = FALSE]
             m2 == IF m1.task = "active"
                   THEN [m1 EXCEPT !.task = "cancelled", !.loops = @ - 1]
                   ELSE m1
         IN  IF m2.session = "open"
             THEN [m2 EXCEPT !.session = "none", !.sessions = @ - 1]
             ELSE m2

CancelNothing(mon, round) == round

\* What self._monitoring_task.cancel() does to the loop: CancelledError
\* reaches the loop at its sleep or at gather, which cancels the tasks of
\* the round at their awaits.
CancelRound(mon, round) == IF mon.running THEN NoRound("off") ELSE round

StartMonitoring ==
    /\ hm_mon' = [StartMon(hm_mon) EXCEPT !.op = "start", !.aborted = FALSE,
                                          !.seq = 1 - hm_mon.seq]
    /\ hm_round' = IF hm_mon.running THEN hm_round ELSE NoRound("sleep")
    /\ UNCHANGED <<hm_config, failure_counts, health_results, unhealthy, hm_obs,
                   hm_last>>
    /\ UNCHANGED <<portVars, regVars, launcherVars, svcVars>>

StopMonitoring ==
    /\ hm_mon' = [StopMon(hm_mon) EXCEPT
                      !.op = "stop",
                      !.aborted = /\ hm_mon.running
                                  /\ \/ hm_round.pending # {}
                                     \/ DOMAIN hm_round.grace # {},
                      !.seq = 1 - hm_mon.seq]
    /\ hm_round' = CancelRound(hm_mon, hm_round)
    /\ UNCHANGED <<hm_config, failure_counts, health_results, unhealthy, hm_obs,
                   hm_last>>
    /\ UNCHANGED <<portVars, regVars, launcherVars, svcVars>>

\* stop_monitoring as the event loop runs it: it gives way at 'await
\* self._monitoring_task' and at 'await self._session.close()', where the
\* handler of another request may run.  Up to the first await.
StopBegin ==
    /\ hm_mon.stopping = "none"
    /\ hm_mon.running
    /\ hm_mon' = [hm_mon EXCEPT
                      !.running = FALSE,
                      !.task = IF @ = "active" THEN "cancelled" ELSE @,
                      !.loops = IF hm_mon.task = "active" THEN @ - 1 ELSE @,
                      !.stopping = "task",
                      !.op = "stop",
                      !.aborted = \/ hm_round.pending # {}
                                  \/ DOMAIN hm_round.grace # {},
                      !.seq = 1 - hm_mon.seq]
    /\ hm_round' = CancelRound(hm_mon, hm_round)
    /\ UNCHANGED <<hm_config, failure_counts, health_results, unhealthy, hm_obs,
                   hm_last>>
    /\ UNCHANGED <<portVars, regVars, launcherVars, svcVars>>

\* The cancelled task has ended: 'if self._session:' and the call of
\* close() on the session the attribute holds now.
StopTaskDone ==
    /\ hm_mon.stopping = "task"
    /\ hm_mon' = IF hm_mon.session = "open"
                 THEN [hm_mon EXCEPT !.session = "closing", !.sessions = @ - 1,
                                     !.stopping = "close"]
                 ELSE [hm_mon EXCEPT !.stopping = "none"]
    /\ UNCHANGED <<hm_config, failure_counts, health_results, hm_round, unhealthy,
                   hm_obs, hm_last>>
    /\ UNCHANGED <<portVars, regVars, launcherVars, svcVars>>

\* close() has returned: self._session = None.
StopClosed ==
    /\ hm_mon.stopping = "close"
    /\ hm_mon' = [hm_mon EXCEPT !.session = "none", !.stopping = "none"]
    /\ UNCHANGED <<hm_config, failure_counts, health_results, hm_round, unhealthy,
                   hm_obs, hm_last>>
    /\ UNCHANGED <<portVars, regVars, launcherVars, svcVars>>

\* The monitor's tables as __init__ leaves them.
HealthTables ==
    /\ failure_counts = EmptyMap
    /\ health_results = EmptyMap
    /\ hm_obs = [a \in HealthApps |-> Unwatched]
    /\ hm_last = [app |-> "", outcome |-> "none", restarted |-> FALSE,
                  restart_ok |-> FALSE]

HealthIdle ==
    /\ HealthTables
    /\ hm_config = HealthCheckConfig
    /\ unhealthy = {}
    /\ hm_round = NoRound("off")
    /\ hm_mon = MonIdle

\* Two service apps run, registered and persisted, and monitoring has been
\* started.
HealthInit ==
    /\ HealthTables
    /\ hm_config = HealthCheckConfig
    /\ unhealthy = {}
    /\ hm_round = NoRound("sleep")
    /\ hm_mon = StartMon(MonIdle)
    /\ fs = [d \in Dirs |-> "none"]
    /\ apps = [a \in HealthApps |->
                  ServiceEntry(a, IF a = "a" THEN PortStart ELSE PortStart + 1)]
    /\ registry_file = Serialized(apps)
    /\ reg_last = [op |-> "none", ret |-> FALSE, save_failed |-> FALSE,
                   seq |-> 0]

\* The same registry with a monitor that was not started and was configured,
\* by update_config, to restart at the second failure; the first app
\* registered may be a service without a health endpoint, and either
\* endpoint may be failing.
MonInit ==
    /\ HealthTables
    /\ hm_config = [max_failures |-> 2, failure_threshold |-> 2]
    /\ unhealthy \in SUBSET HealthApps
    /\ hm_round = NoRound("off")
    /\ hm_mon = MonIdle
    /\ fs = [d \in Dirs |-> "none"]
    /\ \E ui \in BOOLEAN :
          apps = [a \in HealthApps |->
                    IF a = "a"
                    THEN [ServiceEntry(a, PortStart) EXCEPT
                              !.manifest.config.has_UI = ui]
                    ELSE ServiceEntry(a, PortStart + 1)]
    /\ registry_file = Serialized(apps)
    /\ reg_last = [op |-> "none", ret |-> FALSE, save_failed |-> FALSE,
                   seq |-> 0]

HealthNext ==
    \/ BeginRound
    \/ \E a \in HealthApps, o \in Passing \cup Failing, ok \in BOOLEAN :
          CheckApp(a, o, ok)
    \/ \E a \in HealthApps : CheckResume(a)
    \/ EndRound
    \/ \E a \in HealthApps : EnvFail(a)
    \/ \E a \in HealthApps : EnvRecover(a)
    \/ \E a \in HealthApps : OperatorStart(a)

\* update_config: every keyword that names an attribute of the configuration
\* is assigned, whatever its value; the others are skipped.
UpdateConfig(cfg, kwargs) ==
    [k \in DOMAIN cfg |-> IF k \in DOMAIN kwargs THEN kwargs[k] ELSE cfg[k]]

\* The keywords a caller of PUT /api/health/config sends, one of them not an
\* attribute, and the values it sends for them.
KwargKeys == {"max_failures", "failure_threshold", "retries"}

ConfigValues == 1 .. 2

UpdateConfigCall(kwargs) ==
    /\ hm_config' = UpdateConfig(hm_config, kwargs)
    /\ hm_last' = [hm_last EXCEPT !.app = "", !.outcome = "config"]
    /\ UNCHANGED <<failure_counts, health_results, hm_round, unhealthy, hm_obs,
                   hm_mon>>
    /\ UNCHANGED <<portVars, regVars, launcherVars, svcVars>>

\* The outcomes drawn where the monitor is started and stopped.
MonOutcomes == {"good", "error", "timeout"}

MonNext ==
    \/ StartMonitoring
    \/ StopMonitoring
    \/ BeginRound
    \/ \E a \in HealthApps, o \in MonOutcomes, ok \in BOOLEAN : CheckApp(a, o, ok)
    \/ \E a \in HealthApps : CheckResume(a)
    \/ \E a \in HealthApps : CheckRaises(a)
    \/ \E a \in HealthApps, ok \in BOOLEAN : HandleRaised(a, ok)
    \/ EndRound

\* Start and stop requests handled by one event loop, the loop's rounds
\* between them.
StopRaceNext ==
    \/ hm_mon.sessions < MaxCount /\ StartMonitoring
    \/ StopBegin
    \/ StopTaskDone
    \/ StopClosed
    \/ BeginRound
    \/ \E a \in HealthApps, o \in MonOutcomes \cup {"refused"}, ok \in BOOLEAN :
          CheckApp(a, o, ok)
    \/ \E a \in HealthApps : CheckResume(a)
    \/ EndRound

\* The monitor with its configuration endpoint.
ConfigNext ==
    \/ StartMonitoring
    \/ StopMonitoring
    \/ BeginRound
    \/ \E a \in HealthApps, o \in MonOutcomes, ok \in BOOLEAN : CheckApp(a, o, ok)
    \/ \E a \in HealthApps : CheckResume(a)
    \/ EndRound
    \/ \E ks \in (SUBSET KwargKeys) \ {{}} : \E kwargs \in [ks -> ConfigValues] :
          UpdateConfigCall(kwargs)

----------------------------------------------------------------------------
(* The launchers: Streamlit TTL manager (managers/streamlit_manager.py) and *)
(* background-process launcher (managers/process_manager_macos.py)          *)

\* A registered app no launcher has started yet.
InstalledEntry(app_id) ==
    [app_id |-> app_id, name |-> <<app_id>>, type |-> AppTypeOf[app_id],
     description |-> DescriptionOf("1.0.0"), version |-> "1.0.0",
     status |-> EnumStatus("discovered"), path |-> PathOf(<<app_id>>),
     manifest |-> ManifestObject(<<app_id>>, AppTypeOf[app_id], "1.0.0"),
     runtime_info |-> AppRuntimeInfo,
     discovered_at |-> Now, last_updated |-> Now]

\* The apps the registry of the launchers holds; "c" is not registered.
Installed == {"a", "b"}

\* psutil.pid_exists
PidExists(table, pid) == pid \in DOMAIN table

\* What a launcher call works on: the port manager's tables, the registry
\* cache and file, the launcher's tracker, the process table, the next pid;
\* ret is the value returned.
LS(al, ap, reg, file, tracker, table, npid, ret) ==
    [allocations |-> al, app_ports |-> ap, apps |-> reg, file |-> file,
     tracker |-> tracker, table |-> table, next_pid |-> npid, ret |-> ret]

\* port_manager.release_port inside a launcher call.
LsRelease(st, app_id) ==
    LET r == ReleasePort(st.allocations, st.app_ports, app_id)
    IN  [st EXCEPT !.allocations = r.allocations, !.app_ports = r.app_ports]

\* port_manager.allocate_port(app_id, app.type) inside a launcher call.
LsAllocate(st, pend, bnd, app_id) ==
    LET r == AllocatePort(pend, st.allocations, st.app_ports, bnd, app_id,
                          st.apps[app_id].type, NoPort)
    IN  [st EXCEPT !.allocations = r.allocations, !.app_ports = r.app_ports,
                   !.ret = r.ret]

\* registry.update_app inside a launcher call.
LsUpdate(st, app_id, kwargs) ==
    LET r == UpdateApp(st.apps, st.file, app_id, kwargs, TRUE)
    IN  [st EXCEPT !.apps = r.apps, !.file = r.file]

\* Attributes of the cached entry's runtime_info are assigned in place: the
\* cache changes, the file does not. Both launchers set started_at along
\* with a port and pid, and leave it when they clear them.
LsSetRuntime(st, app_id, port, process_id) ==
    [st EXCEPT !.apps[app_id].runtime_info.assigned_port = port,
               !.apps[app_id].runtime_info.process_id = process_id,
               !.apps[app_id].runtime_info.started_at =
                   IF port = NoPort THEN @ ELSE Now]

\* subprocess.Popen: a new process, tracked under its pid.
LsPopen(st, app_id, track) ==
    [st EXCEPT !.table = Put(st.table, st.next_pid, app_id),
               !.next_pid = st.next_pid + 1,
               !.tracker = Put(st.tracker, app_id, track)]

\* psutil.Process(pid).terminate() and wait, or NoSuchProcess.
LsTerminate(st, pid) == [st EXCEPT !.table = DelKey(st.table, pid)]

\* What launch_streamlit_app returns: None, or the endpoint.
NoEndpoint == [pid |-> 0, port |-> NoPort]

Endpoint(pid, port) == [pid |-> pid, port |-> port]

\* StreamlitManager._cleanup_app
CleanupApp(st, app_id) ==
    LET st1 == LsRelease(LsTerminate(st, st.tracker[app_id].pid), app_id)
        st2 == IF app_id \in DOMAIN st1.apps
               THEN LET st3 == LsSetRuntime(st1, app_id, NoPort, None)
                    IN  LsUpdate(st3, app_id,
                            [k \in {"status", "runtime_info"} |->
                                IF k = "status" THEN StrStatus("discovered")
                                ELSE st3.apps[app_id].runtime_info])
               ELSE st1
    IN  [st2 EXCEPT !.tracker = DelKey(st2.tracker, app_id), !.ret = TRUE]

LaunchExistingKeepsDead(st, app_id) ==
    IF /\ app_id \in DOMAIN st.tracker
       /\ PidExists(st.table, st.tracker[app_id].pid)
    THEN [st EXCEPT !.tracker[app_id].expired = FALSE,
                    !.ret = Endpoint(st.tracker[app_id].pid,
                                     st.tracker[app_id].port)]
    ELSE [st EXCEPT !.ret = NoEndpoint]

\* launch_streamlit_app up to "Launch new instance": ret is the endpoint of
\* the live tracked process, or NoEndpoint when a new one is to be launched.
LaunchExisting(st, app_id) ==
    IF app_id \in DOMAIN st.tracker
    THEN IF PidExists(st.table, st.tracker[app_id].pid)
         THEN [st EXCEPT !.tracker[app_id].expired = FALSE,
                         !.ret = Endpoint(st.tracker[app_id].pid,
                                          st.tracker[app_id].port)]
         ELSE [CleanupApp(st, app_id) EXCEPT !.ret = NoEndpoint]
    ELSE [st EXCEPT !.ret = NoEndpoint]

\* launch_streamlit_app from "Launch new instance" on.
LaunchNew(st, pend, bnd, app_id, main_exists, popen_ok) ==
    IF app_id \notin DOMAIN st.apps
    THEN [st EXCEPT !.ret = NoEndpoint]
    ELSE IF st.apps[app_id].type # "streamlit"
    THEN [st EXCEPT !.ret = NoEndpoint]
    ELSE LET st1 == LsAllocate(st, pend, bnd, app_id)
             port == st1.ret
         IN  IF port = NoPort
             THEN [st1 EXCEPT !.ret = NoEndpoint]
             ELSE IF ~main_exists
             THEN [LsRelease(st1, app_id) EXCEPT !.ret = NoEndpoint]
             ELSE IF ~popen_ok
             THEN [LsRelease([st1 EXCEPT !.tracker = DelKey(st1.tracker, app_id)],
                             app_id)
                   EXCEPT !.ret = NoEndpoint]
             ELSE LET pid == st1.next_pid
                      st2 == LsPopen(st1, app_id,
                                     [pid |-> pid, port |-> port,
                                      expired |-> FALSE])
                      st3 == LsSetRuntime(st2, app_id, port, IntToStr(pid))
                      st4 == LsUpdate(st3, app_id,
                                 [k \in {"status", "runtime_info"} |->
                                     IF k = "status" THEN StrStatus("running")
                                     ELSE st3.apps[app_id].runtime_info])
                  IN  [st4 EXCEPT !.ret = Endpoint(pid, port)]

TouchAppKeepsClock(st, app_id) == st

\* touch_app under the lock: last_accessed becomes now.
TouchApp(st, app_id) ==
    IF app_id \in DOMAIN st.tracker
    THEN [st EXCEPT !.tracker[app_id].expired = FALSE]
    ELSE st

IdleAppsNone(tracker) == {}

\* _cleanup_loop: the tracked apps idle for longer than the TTL.
IdleApps(tracker) == {a \in DOMAIN tracker : tracker[a].expired}

RECURSIVE CleanupAll(_, _)
CleanupAll(st, todo) ==
    IF todo = {} THEN st
    ELSE LET a == CHOOSE x \in todo : TRUE
         IN  CleanupAll(CleanupApp(st, a), todo \ {a})

\* stop_streamlit_app under the lock.
StopStreamlitApp(st, app_id) ==
    IF app_id \notin DOMAIN st.tracker
    THEN [st EXCEPT !.ret = FALSE]
    ELSE CleanupApp(st, app_id)

\* stop_all under the lock.
StopAll(st) == CleanupAll(st, DOMAIN st.tracker)

\* AppManager.install_app_dependencies: the manifest names no requirements
\* file ("none"), the file is missing ("missing"), pip exits with 0 ("ok")
\* or fails ("fail").
InstallAppDependencies(st, app_id, install) ==
    CASE install = "none" -> [st EXCEPT !.ret = TRUE]
      [] install = "missing" -> [st EXCEPT !.ret = FALSE]
      [] install = "ok" ->
            [LsUpdate(LsUpdate(st, app_id,
                               [k \in {"status"} |-> EnumStatus("installing")]),
                      app_id, [k \in {"status"} |-> EnumStatus("ready")])
             EXCEPT !.ret = TRUE]
      [] install = "fail" ->
            [LsUpdate(LsUpdate(st, app_id,
                               [k \in {"status"} |-> EnumStatus("installing")]),
                      app_id, [k \in {"status"} |-> EnumStatus("error")])
             EXCEPT !.apps[app_id].runtime_info.error_message =
                        "Dependency installation failed",
                    !.ret = FALSE]

\* AppManager.prepare_app
PrepareApp(st, pend, bnd, app_id, install, setup_ok) ==
    IF app_id \notin DOMAIN st.apps THEN [st EXCEPT !.ret = FALSE]
    ELSE IF st.apps[app_id].status.value = "ready" THEN [st EXCEPT !.ret = TRUE]
    ELSE LET st1 == InstallAppDependencies(st, app_id, install)
         IN  IF ~st1.ret THEN st1
             ELSE IF ~setup_ok
             THEN [LsUpdate([st1 EXCEPT !.apps[app_id].runtime_info.error_message =
                                            "Setup command failed"],
                            app_id, [k \in {"status"} |-> EnumStatus("error")])
                   EXCEPT !.ret = FALSE]
             ELSE IF st1.apps[app_id].type # "service"
             THEN [LsUpdate(st1, app_id,
                            [k \in {"status"} |-> EnumStatus("ready")])
                   EXCEPT !.ret = TRUE]
             ELSE LET st2 == LsAllocate(st1, pend, bnd, app_id)
                      port == st2.ret
                  IN  IF port = NoPort
                      THEN LET st3 == [st2 EXCEPT
                                         !.apps[app_id].runtime_info.error_message =
                                             "Failed to allocate port"]
                           IN  [LsUpdate(st3, app_id,
                                    [k \in {"status", "runtime_info"} |->
                                        IF k = "status" THEN EnumStatus("error")
                                        ELSE st3.apps[app_id].runtime_info])
                                EXCEPT !.ret = FALSE]
                      ELSE LET st3 == [st2 EXCEPT
                                         !.apps[app_id].runtime_info.assigned_port =
                                             port]
                               st4 == LsUpdate(st3, app_id,
                                          [k \in {"runtime_info"} |->
                                              st3.apps[app_id].runtime_info])
                           IN  [LsUpdate(st4, app_id,
                                    [k \in {"status"} |-> EnumStatus("ready")])
                                EXCEPT !.ret = TRUE]

\* start_app from "Allocate port" on.
StartFresh(st, pend, bnd, app_id, main_exists, popen_ok) ==
    LET st1 == LsAllocate(st, pend, bnd, app_id)
        port == st1.ret
    IN  IF port = NoPort
        THEN [st1 EXCEPT !.ret = FALSE]
        ELSE IF ~main_exists
        THEN [LsRelease(st1, app_id) EXCEPT !.ret = FALSE]
        ELSE IF ~popen_ok
        THEN [LsRelease([st1 EXCEPT !.tracker = DelKey(st1.tracker, app_id)],
                        app_id)
              EXCEPT !.ret = FALSE]
        ELSE LET pid == st1.next_pid
                 st2 == LsPopen(st1, app_id, [pid |-> pid, port |-> port])
                 st3 == LsUpdate(st2, app_id,
                            [k \in {"status", "runtime_info"} |->
                                IF k = "status" THEN StrStatus("running")
                                ELSE st2.apps[app_id].runtime_info])
                 st4 == LsSetRuntime(st3, app_id, port, IntToStr(pid))
             IN  [st4 EXCEPT !.ret = TRUE]

StartAppAlwaysFresh(st, pend, bnd, app_id, main_exists, popen_ok) ==
    IF app_id \notin DOMAIN st.apps
    THEN [st EXCEPT !.ret = FALSE]
    ELSE IF st.apps[app_id].type # "service"
    THEN [st EXCEPT !.ret = FALSE]
    ELSE StartFresh(st, pend, bnd, app_id, main_exists, popen_ok)

\* MacOSProcessManager.start_app
StartApp(st, pend, bnd, app_id, main_exists, popen_ok) ==
    IF app_id \notin DOMAIN st.apps
    THEN [st EXCEPT !.ret = FALSE]
    ELSE IF st.apps[app_id].type # "service"
    THEN [st EXCEPT !.ret = FALSE]
    ELSE IF /\ app_id \in DOMAIN st.tracker
            /\ PidExists(st.table, st.tracker[app_id].pid)
    THEN [st EXCEPT !.ret = TRUE]
    ELSE StartFresh(st, pend, bnd, app_id, main_exists, popen_ok)

StopAppKeepsPort(st, app_id) ==
    IF app_id \notin DOMAIN st.tracker
    THEN [st EXCEPT !.ret = FALSE]
    ELSE LET st1 == LsTerminate(st, st.tracker[app_id].pid)
         IN  [st1 EXCEPT !.tracker = DelKey(st1.tracker, app_id), !.ret = TRUE]

StopAppLeavesProcess(st, app_id) ==
    IF app_id \notin DOMAIN st.tracker
    THEN [st EXCEPT !.ret = FALSE]
    ELSE LET st1 == LsRelease(st, app_id)
         IN  [st1 EXCEPT !.tracker = DelKey(st1.tracker, app_id), !.ret = TRUE]

\* MacOSProcessManager.stop_app
StopApp(st, app_id) ==
    IF app_id \notin DOMAIN st.tracker
    THEN [st EXCEPT !.ret = FALSE]
    ELSE LET st1 == LsRelease(LsTerminate(st, st.tracker[app_id].pid), app_id)
             st2 == IF app_id \in DOMAIN st1.apps
                    THEN LsSetRuntime(
                             LsUpdate(st1, app_id,
                                 [k \in {"status"} |-> StrStatus("stopped")]),
                             app_id, NoPort, None)
                    ELSE st1
         IN  [st2 EXCEPT !.tracker = DelKey(st2.tracker, app_id), !.ret = TRUE]

\* MacOSProcessManager.stop_all: stop_app for every tracked app; the calls
\* touch distinct apps, so their order does not matter.
RECURSIVE StopEach(_, _)
StopEach(st, todo) ==
    IF todo = {} THEN st
    ELSE LET a == CHOOSE x \in todo : TRUE
         IN  StopEach(StopApp(st, a), todo \ {a})

StopAllApps(st) == StopEach(st, DOMAIN st.tracker)

GetAppStatusKeepsPort(st, app_id) ==
    IF app_id \notin DOMAIN st.tracker
    THEN [st EXCEPT !.ret = "stopped"]
    ELSE IF PidExists(st.table, st.tracker[app_id].pid)
    THEN [st EXCEPT !.ret = "running"]
    ELSE [st EXCEPT !.tracker = DelKey(st.tracker, app_id), !.ret = "error"]

\* MacOSProcessManager.get_app_status
GetAppStatus(st, app_id) ==
    IF app_id \notin DOMAIN st.tracker
    THEN [st EXCEPT !.ret = "stopped"]
    ELSE IF PidExists(st.table, st.tracker[app_id].pid)
    THEN [st EXCEPT !.ret = "running"]
    ELSE [LsRelease([st EXCEPT !.tracker = DelKey(st.tracker, app_id)], app_id)
          EXCEPT !.ret = "error"]

\* MacOSProcessManager.restart_app
RestartApp(st, pend, bnd, app_id, main_exists, popen_ok) ==
    StartApp(StopApp(st, app_id), pend, bnd, app_id, main_exists, popen_ok)

----------------------------------------------------------------------------
(* The launchers: their operations as actions *)

Threads == {1, 2}

\* The lock's holder while nobody holds it.
NoThread == 0

\* The daemon thread that runs _cleanup_loop, as a holder of the lock.
Sweeper == 3

\* A request thread outside any call. op is the method it is in, dead the
\* pid of the dead tracked process its launch cleaned up (0 when none).
IdleThread ==
    [pc |-> "idle", op |-> "none", app |-> "", resp |-> NoEndpoint,
     ticket |-> 0, contended |-> FALSE, dead |-> 0]

\* The state a StreamlitManager call starts from, and the one it leaves.
TtlState ==
    LS(allocations, app_ports, apps, registry_file, st_processes, os_procs,
       next_pid, NoEndpoint)

TtlStore(st) ==
    /\ allocations' = st.allocations
    /\ app_ports' = st.app_ports
    /\ apps' = st.apps
    /\ registry_file' = st.file
    /\ st_processes' = st.tracker
    /\ os_procs' = st.table
    /\ next_pid' = st.next_pid
    /\ UNCHANGED <<port_end, busy, last, fs, reg_last>>
    /\ UNCHANGED <<hmVars, svcVars, procVars>>

LockAlwaysFree(lk) == TRUE

\* threading.Lock: acquire returns when nobody holds the lock.
LockFree(lk) == lk = NoThread

\* A request thread calls launch_streamlit_app(app_id) and reaches the
\* with statement.
LaunchCall(t, app_id) ==
    /\ threads[t].pc = "idle"
    /\ threads' = [threads EXCEPT ![t] =
                      [IdleThread EXCEPT !.pc = "waiting", !.op = "launch",
                                         !.app = app_id,
                                         !.contended = (st_lock # NoThread)]]
    /\ UNCHANGED <<st_processes, st_lock, sweep_last, releasing>>
    /\ UNCHANGED <<portVars, regVars, hmVars, svcVars, osVars, procVars>>

\* A request thread calls stop_streamlit_app(app_id), touch_app(app_id) or
\* stop_all() and reaches the with statement.
OtherCall(t, op, app_id) ==
    /\ threads[t].pc = "idle"
    /\ threads' = [threads EXCEPT ![t] =
                      [IdleThread EXCEPT !.pc = "waiting", !.op = op,
                                         !.app = app_id,
                                         !.contended = (st_lock # NoThread)]]
    /\ UNCHANGED <<st_processes, st_lock, sweep_last, releasing>>
    /\ UNCHANGED <<portVars, regVars, hmVars, svcVars, osVars, procVars>>

\* The thread acquires the lock: "with self.lock" of the method it called.
LaunchEnter(t) ==
    /\ threads[t].pc = "waiting"
    /\ LockFree(st_lock)
    /\ st_lock' = t
    /\ threads' = [threads EXCEPT
                      ![t].pc = IF threads[t].op = "launch" THEN "check"
                                ELSE "body",
                      ![t].ticket =
                          1 + Cardinality({u \in Threads : threads[u].ticket > 0})]
    /\ UNCHANGED <<st_processes, sweep_last, releasing>>
    /\ UNCHANGED <<portVars, regVars, hmVars, svcVars, osVars, procVars>>

\* "Check if already running": return the tracked endpoint, or go on to
\* launch after cleaning up a tracked process that died.
LaunchCheck(t) ==
    /\ threads[t].pc = "check"
    /\ \E st \in {LaunchExisting(TtlState, threads[t].app)} :
        /\ TtlStore(st)
        /\ threads' = [threads EXCEPT
                          ![t].pc = IF st.ret = NoEndpoint THEN "launch" ELSE "exit",
                          ![t].resp = st.ret,
                          ![t].dead =
                              IF /\ threads[t].app \in DOMAIN st_processes
                                 /\ st.ret = NoEndpoint
                              THEN st_processes[threads[t].app].pid ELSE 0]
        /\ UNCHANGED <<st_lock, sweep_last, releasing>>

\* The body of stop_streamlit_app, touch_app or stop_all, under the lock.
OtherBody(t) ==
    /\ threads[t].pc = "body"
    /\ \E st \in {IF threads[t].op = "stop"
                   THEN StopStreamlitApp(TtlState, threads[t].app)
                   ELSE IF threads[t].op = "touch"
                   THEN TouchApp(TtlState, threads[t].app)
                   ELSE StopAll(TtlState)} :
        /\ TtlStore(st)
        /\ threads' = [threads EXCEPT ![t].pc = "exit"]
        /\ UNCHANGED <<st_lock, sweep_last, releasing>>

\* "Launch new instance".
LaunchSpawn(t, main_exists, popen_ok) ==
    /\ threads[t].pc = "launch"
    /\ popen_ok => next_pid <= MaxPid
    /\ \E st \in {LaunchNew(TtlState, port_end, busy, threads[t].app,
                             main_exists, popen_ok)} :
        /\ TtlStore(st)
        /\ threads' = [threads EXCEPT ![t].pc = "exit", ![t].resp = st.ret]
        /\ UNCHANGED <<st_lock, sweep_last, releasing>>

\* The with statement ends: the lock is released and the call returns.
LaunchExit(t) ==
    /\ threads[t].pc = "exit"
    /\ st_lock' = NoThread
    /\ threads' = [threads EXCEPT ![t].pc = "done"]
    /\ UNCHANGED <<st_processes, sweep_last, releasing>>
    /\ UNCHANGED <<portVars, regVars, hmVars, svcVars, osVars, procVars>>

\* The call has returned; the thread is free for another request.
Return(t) ==
    /\ threads[t].pc = "done"
    /\ threads' = [threads EXCEPT ![t] = IdleThread]
    /\ UNCHANGED <<st_processes, st_lock, sweep_last, releasing>>
    /\ UNCHANGED <<portVars, regVars, hmVars, svcVars, osVars, procVars>>

\* _cleanup_loop wakes from its sleep and acquires the lock.
CleanupLoopEnter ==
    /\ LockFree(st_lock)
    /\ st_lock' = Sweeper
    /\ UNCHANGED <<st_processes, threads, sweep_last, releasing>>
    /\ UNCHANGED <<portVars, regVars, hmVars, svcVars, osVars, procVars>>

\* One sweep of _cleanup_loop under the lock, up to the lock's release.
CleanupLoop ==
    /\ st_lock = Sweeper
    /\ \E st \in {CleanupAll(TtlState, IdleApps(st_processes))} :
        /\ TtlStore(st)
        /\ st_lock' = NoThread
        /\ sweep_last' = [stopped |-> IdleApps(st_processes),
                          spared |-> (DOMAIN st_processes) \ IdleApps(st_processes)]
        /\ UNCHANGED <<threads, releasing>>

\* A tracked Streamlit app stays untouched for longer than the TTL.
TtlExpires(app_id) ==
    /\ app_id \in DOMAIN st_processes
    /\ ~st_processes[app_id].expired
    /\ st_processes' = [st_processes EXCEPT ![app_id].expired = TRUE]
    /\ UNCHANGED <<st_lock, threads, sweep_last, releasing>>
    /\ UNCHANGED <<portVars, regVars, hmVars, svcVars, osVars, procVars>>

\* A process is killed from outside, or exits.
EnvKill(pid) ==
    /\ pid \in DOMAIN os_procs
    /\ os_procs' = DelKey(os_procs, pid)
    /\ UNCHANGED next_pid
    /\ UNCHANGED <<portVars, regVars, hmVars, svcVars, ttlVars, procVars>>

\* The state a MacOSProcessManager call starts from, and the one it leaves.
ProcState ==
    LS(allocations, app_ports, apps, registry_file, processes, os_procs,
       next_pid, FALSE)

\* The record of a call: its name, argument and result, the pid the tracker
\* held for the app when it began, whether the main file exists and Popen
\* works, and, when the call before it was a status call for the same app
\* that returned error, the pid that call found dead (0 otherwise).
ProcCall(op, app_id, ret, pid, env_ok) ==
    [op |-> op, app |-> app_id, ret |-> ret, pid |-> pid, env_ok |-> env_ok,
     died |-> IF /\ proc_last.op = "status"
                 /\ proc_last.app = app_id
                 /\ proc_last.ret = "error"
              THEN proc_last.pid ELSE 0,
     seq |-> 1 - proc_last.seq]

ProcStore(st) ==
    /\ allocations' = st.allocations
    /\ app_ports' = st.app_ports
    /\ apps' = st.apps
    /\ registry_file' = st.file
    /\ processes' = st.tracker
    /\ os_procs' = st.table
    /\ next_pid' = st.next_pid
    /\ UNCHANGED <<port_end, busy, last, fs, reg_last>>
    /\ UNCHANGED <<hmVars, svcVars, ttlVars>>

\* The pid the tracker holds for an app, 0 when it holds none.
TrackedPid(tracker, app_id) ==
    IF app_id \in DOMAIN tracker THEN tracker[app_id].pid ELSE 0

Start(app_id, main_exists, popen_ok) ==
    LET st == StartApp(ProcState, port_end, busy, app_id, main_exists, popen_ok)
    IN  /\ next_pid <= MaxPid
        /\ ProcStore(st)
        /\ proc_last' = ProcCall("start", app_id, st.ret,
                                 TrackedPid(processes, app_id),
                                 main_exists /\ popen_ok)

Stop(app_id) ==
    LET st == StopApp(ProcState, app_id)
    IN  /\ ProcStore(st)
        /\ proc_last' = ProcCall("stop", app_id, st.ret,
                                 TrackedPid(processes, app_id), TRUE)

Status(app_id) ==
    LET st == GetAppStatus(ProcState, app_id)
    IN  /\ ProcStore(st)
        /\ proc_last' = ProcCall("status", app_id, st.ret,
                                 TrackedPid(processes, app_id), TRUE)

Restart(app_id, main_exists, popen_ok) ==
    LET st == RestartApp(ProcState, port_end, busy, app_id, main_exists, popen_ok)
    IN  /\ next_pid <= MaxPid
        /\ ProcStore(st)
        /\ proc_last' = ProcCall("restart", app_id, st.ret,
                                 TrackedPid(processes, app_id),
                                 main_exists /\ popen_ok)

\* POST /api/apps/{app_id}/prepare
Prepare(app_id, install, setup_ok) ==
    LET st == PrepareApp(ProcState, port_end, busy, app_id, install, setup_ok)
    IN  /\ ProcStore(st)
        /\ UNCHANGED proc_last

\* The shutdown's macos_process_manager.stop_all().
ProcStopAll ==
    LET st == StopAllApps(ProcState)
    IN  /\ ProcStore(st)
        /\ proc_last' = ProcCall("stop_all", "", TRUE, 0, TRUE)

LauncherIdle ==
    /\ os_procs = EmptyMap
    /\ next_pid = 1
    /\ st_processes = EmptyMap
    /\ st_lock = NoThread
    /\ sweep_last = [stopped |-> {}, spared |-> {}]
    /\ releasing = NotReleasing
    /\ threads = [t \in Threads |-> IdleThread]
    /\ processes = EmptyMap
    /\ proc_last = [op |-> "none", app |-> "", ret |-> FALSE, pid |-> 0,
                    env_ok |-> FALSE, died |-> 0, seq |-> 0]

\* The platform after startup: the whole port range configured, the
\* installed apps registered and persisted, nothing launched.
LauncherInit ==
    /\ LauncherIdle
    /\ HealthIdle
    /\ SvcIdle
    /\ port_end = PortStart + MaxPorts - 1
    /\ allocations = EmptyMap
    /\ app_ports = EmptyMap
    /\ busy = {}
    /\ last = [op |-> "none", app |-> "", ret |-> NoPort, reused |-> FALSE,
               pref |-> NoPort, seq |-> 0]
    /\ fs = [d \in Dirs |-> "none"]
    /\ apps = [a \in Installed |-> InstalledEntry(a)]
    /\ registry_file = Serialized(apps)
    /\ reg_last = [op |-> "none", ret |-> FALSE, save_failed |-> FALSE,
                   seq |-> 0]

TtlNext ==
    \/ \E t \in Threads, a \in AppIds : LaunchCall(t, a)
    \/ \E t \in Threads : LaunchEnter(t)
    \/ \E t \in Threads : LaunchCheck(t)
    \/ \E t \in Threads, m \in BOOLEAN, ok \in BOOLEAN : LaunchSpawn(t, m, ok)
    \/ \E t \in Threads : LaunchExit(t)
    \/ CleanupLoopEnter
    \/ CleanupLoop
    \/ \E a \in AppIds : TtlExpires(a)
    \/ \E pid \in 1 .. MaxPid : EnvKill(pid)
    \/ \E p \in AllPorts : EnvBind(p)
    \/ \E p \in AllPorts : EnvClose(p)

\* The installed Streamlit apps: the ones the web layer asks for.
ReaperApps == {a \in Installed : AppTypeOf[a] = "streamlit"}

\* All the requests made of the StreamlitManager, call after call.
ReaperNext ==
    \/ \E t \in Threads, a \in ReaperApps : LaunchCall(t, a)
    \/ \E t \in Threads, a \in ReaperApps : OtherCall(t, "stop", a)
    \/ \E t \in Threads, a \in ReaperApps : OtherCall(t, "touch", a)
    \/ \E t \in Threads : OtherCall(t, "stop_all", "")
    \/ \E t \in Threads : LaunchEnter(t)
    \/ \E t \in Threads : LaunchCheck(t)
    \/ \E t \in Threads, m \in BOOLEAN, ok \in BOOLEAN : LaunchSpawn(t, m, ok)
    \/ \E t \in Threads : OtherBody(t)
    \/ \E t \in Threads : LaunchExit(t)
    \/ CleanupLoopEnter
    \/ CleanupLoop
    \/ \E a \in ReaperApps : TtlExpires(a)
    \/ \E pid \in 1 .. MaxPid : EnvKill(pid)
    \/ \E t \in Threads : Return(t)

ProcNext ==
    \/ \E a \in AppIds, m \in BOOLEAN, ok \in BOOLEAN : Start(a, m, ok)
    \/ \E a \in AppIds : Stop(a)
    \/ \E a \in AppIds : Status(a)
    \/ \E a \in AppIds, m \in BOOLEAN, ok \in BOOLEAN : Restart(a, m, ok)
    \/ \E pid \in 1 .. MaxPid : EnvKill(pid)
    \/ \E p \in AllPorts : EnvBind(p)
    \/ \E p \in AllPorts : EnvClose(p)

\* Every call of the background launcher, the shutdown's stop_all included.
ProcAllNext ==
    \/ ProcNext
    \/ ProcStopAll

\* The background launcher beside the port cleanup endpoint and the clock.
StaleNext ==
    \/ \E a \in AppIds, m \in BOOLEAN, ok \in BOOLEAN : Start(a, m, ok)
    \/ \E a \in AppIds : Stop(a)
    \/ \E a \in AppIds : Status(a)
    \/ \E pid \in 1 .. MaxPid : EnvKill(pid)
    \/ \E p \in AllPorts : EnvBind(p)
    \/ \E p \in AllPorts : EnvClose(p)
    \/ CleanupStale
    \/ \E p \in AllPorts : AllocationAges(p)

----------------------------------------------------------------------------
(* Service manager (managers/service_manager.py) *)

\* How a systemctl call ends: exit code 0, another exit code with text on
\* stderr, or subprocess.run raising.
Outcomes == {"ok", "fail", "raise"}

\* The text systemctl wrote to stderr, and that of the exception.
Stderr == "Unit not found"

ExcText == "No such file: systemctl"

\* The services' files and tracking and the registry during a call; tried
\* holds the steps of remove_service that were attempted.
SV(reg, file, units, tracked, ret, tried) ==
    [apps |-> reg, file |-> file, unit_files |-> units, services |-> tracked,
     ret |-> ret, tried |-> tried]

\* The registry write of a start that failed with the given message.
SvMarkError(st, app_id, error_msg, disk_ok) ==
    IF app_id \in DOMAIN st.apps
    THEN LET info == [st.apps[app_id].runtime_info EXCEPT
                          !.error_message = error_msg]
             r == UpdateApp(st.apps, st.file, app_id,
                            [k \in {"status", "runtime_info"} |->
                                IF k = "status" THEN EnumStatus("error") ELSE info],
                            disk_ok)
         IN  [st EXCEPT !.apps = r.apps, !.file = r.file]
    ELSE st

\* ServiceManager.start_service
StartService(st, app_id, outcome, disk_ok) ==
    CASE outcome = "ok" ->
            LET r == UpdateApp(st.apps, st.file, app_id,
                               [k \in {"status"} |-> EnumStatus("running")],
                               disk_ok)
            IN  [st EXCEPT !.apps = r.apps, !.file = r.file, !.ret = TRUE]
      [] outcome = "fail" ->
            [SvMarkError(st, app_id, <<"Failed to start service: ", Stderr>>,
                         disk_ok)
             EXCEPT !.ret = FALSE]
      [] outcome = "raise" ->
            [SvMarkError(st, app_id, <<"Exception starting service: ", ExcText>>,
                         disk_ok)
             EXCEPT !.ret = FALSE]

StopServiceAlwaysStopped(st, app_id, outcome, disk_ok) ==
    LET r == UpdateApp(st.apps, st.file, app_id,
                       [k \in {"status"} |-> EnumStatus("stopped")], disk_ok)
    IN  [st EXCEPT !.apps = r.apps, !.file = r.file, !.ret = (outcome = "ok")]

\* ServiceManager.stop_service
StopService(st, app_id, outcome, disk_ok) ==
    IF outcome = "ok"
    THEN LET r == UpdateApp(st.apps, st.file, app_id,
                            [k \in {"status"} |-> EnumStatus("stopped")], disk_ok)
         IN  [st EXCEPT !.apps = r.apps, !.file = r.file, !.ret = TRUE]
    ELSE [st EXCEPT !.ret = FALSE]

\* ServiceManager.disable_service: it changes nothing here and answers
\* whether systemctl exited with 0; an exception is caught and answers False.
DisableService(st, app_id, disabled) == [st EXCEPT !.ret = disabled]

\* ServiceManager.create_service_file: the template needs a registered
\* service app with an assigned port; the file is written before the daemon
\* is reloaded.
CreateServiceFile(st, app_id, write_ok, reload) ==
    IF \/ app_id \notin DOMAIN st.apps
       \/ st.apps[app_id].type # "service"
       \/ st.apps[app_id].runtime_info.assigned_port = NoPort
    THEN [st EXCEPT !.ret = FALSE]
    ELSE IF ~write_ok
    THEN [st EXCEPT !.ret = FALSE]
    ELSE [st EXCEPT !.unit_files = st.unit_files \cup {app_id},
                    !.ret = (reload = "ok")]

\* ServiceManager.remove_service
RemoveService(st, app_id, stop, disable, unlink_ok, reload, disk_ok) ==
    LET st1 == StopService(st, app_id, stop, disk_ok)
        st2 == [DisableService(st1, app_id, disable) EXCEPT
                    !.tried = {"stop", "disable", "unlink"}]
    IN  IF app_id \in st2.unit_files /\ ~unlink_ok
        THEN [st2 EXCEPT !.ret = FALSE]
        ELSE LET st3 == [st2 EXCEPT !.unit_files = st2.unit_files \ {app_id},
                                    !.tried = st2.tried \cup {"reload"}]
             IN  IF reload = "raise"
                 THEN [st3 EXCEPT !.ret = FALSE]
                 ELSE [st3 EXCEPT !.services = st3.services \ {app_id},
                                  !.ret = TRUE]

----------------------------------------------------------------------------
(* Service manager: the operations as actions *)

SvcState == SV(apps, registry_file, unit_files, services, FALSE, {})

\* The record of a call; outcome is how the systemctl call of a start or a
\* stop ended, and "ok" for the other operations.
SvcCall(op, app_id, st, outcome) ==
    [op |-> op, app |-> app_id, ret |-> st.ret, tried |-> st.tried,
     outcome |-> outcome, seq |-> 1 - svc_last.seq]

SvcStore(st) ==
    /\ apps' = st.apps
    /\ registry_file' = st.file
    /\ unit_files' = st.unit_files
    /\ services' = st.services
    /\ UNCHANGED <<fs, reg_last>>
    /\ UNCHANGED <<portVars, hmVars, launcherVars>>

SvcStart(app_id, outcome, disk_ok) ==
    LET st == StartService(SvcState, app_id, outcome, disk_ok)
    IN  /\ SvcStore(st)
        /\ svc_last' = SvcCall("start", app_id, st, outcome)

SvcStop(app_id, outcome, disk_ok) ==
    LET st == StopService(SvcState, app_id, outcome, disk_ok)
    IN  /\ SvcStore(st)
        /\ svc_last' = SvcCall("stop", app_id, st, outcome)

SvcCreate(app_id, write_ok, reload) ==
    LET st == CreateServiceFile(SvcState, app_id, write_ok, reload)
    IN  /\ SvcStore(st)
        /\ svc_last' = SvcCall("create", app_id, st, "ok")

SvcRemove(app_id, stop, disable, unlink_ok, reload, disk_ok) ==
    LET st == RemoveService(SvcState, app_id, stop, disable, unlink_ok, reload,
                            disk_ok)
    IN  /\ SvcStore(st)
        /\ svc_last' = SvcCall("remove", app_id, st, "ok")

\* get_service_status, systemctl show exiting 0: the app is tracked.
SvcStatus(app_id) ==
    /\ app_id \notin services
    /\ services' = services \cup {app_id}
    /\ svc_last' = [svc_last EXCEPT !.op = "status", !.app = app_id,
                                    !.seq = 1 - svc_last.seq]
    /\ UNCHANGED unit_files
    /\ UNCHANGED <<portVars, regVars, hmVars, launcherVars>>

\* The apps service calls are made for: a registered service and an id the
\* registry does not know.
SvcApps == {"a", "c"}

\* One service app is registered, installed and has a port assigned.
SvcInit ==
    /\ SvcIdle
    /\ fs = [d \in Dirs |-> "none"]
    /\ apps = [a \in {"a"} |->
                  [ServiceEntry(a, PortStart) EXCEPT
                       !.status = EnumStatus("ready")]]
    /\ registry_file = Serialized(apps)
    /\ reg_last = [op |-> "none", ret |-> FALSE, save_failed |-> FALSE,
                   seq |-> 0]

SvcNext ==
    \/ \E a \in SvcApps, o \in Outcomes, d \in BOOLEAN : SvcStart(a, o, d)
    \/ \E a \in SvcApps, o \in Outcomes, d \in BOOLEAN : SvcStop(a, o, d)
    \/ \E a \in SvcApps, w \in BOOLEAN, o \in Outcomes : SvcCreate(a, w, o)
    \/ \E a \in SvcApps, o1 \in Outcomes, o2 \in BOOLEAN, u \in BOOLEAN,
          o3 \in Outcomes, d \in BOOLEAN : SvcRemove(a, o1, o2, u, o3, d)
    \/ \E a \in SvcApps : SvcStatus(a)

\* How install_app_dependencies may end.
Installs == {"none", "missing", "ok", "fail"}

\* The lifecycle of the installed service app as the web layer and the
\* startup and shutdown code drive it: prepare, the service manager's start
\* and stop, and the background launcher.
LeakNext ==
    \/ \E i \in Installs, ok \in BOOLEAN : Prepare("a", i, ok)
    \/ \E o \in Outcomes : SvcStart("a", o, TRUE)
    \/ \E o \in Outcomes : SvcStop("a", o, TRUE)
    \/ \E m \in BOOLEAN, ok \in BOOLEAN : Start("a", m, ok)
    \/ Stop("a")
    \/ ProcStopAll
    \/ \E pid \in 1 .. MaxPid : EnvKill(pid)

----------------------------------------------------------------------------
(* Specifications, one per component *)

\* A component nobody calls.
PortIdle ==
    /\ port_end = PortStart
    /\ allocations = EmptyMap
    /\ app_ports = EmptyMap
    /\ busy = {}
    /\ last = [op |-> "none", app |-> "", ret |-> NoPort, reused |-> FALSE,
               pref |-> NoPort, seq |-> 0]

InitPort == PortInit /\ RegInit /\ HealthIdle /\ LauncherIdle /\ SvcIdle

SpecPort == InitPort /\ [][PortNext]_vars

InitReg == RegInit /\ PortIdle /\ HealthIdle /\ LauncherIdle /\ SvcIdle

SpecPortRace == InitPort /\ [][RaceNext]_vars

SpecReg == InitReg /\ [][RegNext]_vars

SpecDisc == InitReg /\ [][DiscNext]_vars

SpecLoad == InitReg /\ [][LoadNext]_vars

InitCodec == CodecInit /\ PortIdle /\ HealthIdle /\ LauncherIdle /\ SvcIdle

SpecCodec == InitCodec /\ [][CodecNext]_vars

InitHealth == HealthInit /\ PortIdle /\ LauncherIdle /\ SvcIdle

InitMon == MonInit /\ PortIdle /\ LauncherIdle /\ SvcIdle

SpecMon == InitMon /\ [][MonNext]_vars

SpecHealth == InitHealth /\ [][HealthNext]_vars

SpecStopRace == InitMon /\ [][StopRaceNext]_vars

SpecConfig == InitMon /\ [][ConfigNext]_vars

SpecTTL == LauncherInit /\ [][TtlNext]_vars

SpecReaper == LauncherInit /\ [][ReaperNext]_vars

\* What the scheduling gives. The sweep wakes every 30 seconds and gets the
\* lock among the threads that want it (strong fairness: the lock is free
\* only on and off). Time passes for every tracked app. Whoever holds the
\* lock runs to the end of its with statement: weak fairness of the holder's
\* steps, which are enabled exactly while it holds the lock and end with
\* the release, so that it comes to the lock being let go again and again.
ReaperFairness ==
    /\ SF_vars(CleanupLoopEnter)
    /\ \A a \in ReaperApps : WF_vars(TtlExpires(a))
    /\ []<>(st_lock # Sweeper)
    /\ []<>(st_lock \notin Threads)

SpecReaperFair == SpecReaper /\ ReaperFairness

SpecProc == LauncherInit /\ [][ProcNext]_vars

SpecProcAll == LauncherInit /\ [][ProcAllNext]_vars

SpecStale == LauncherInit /\ [][StaleNext]_vars

SpecLeak == LauncherInit /\ [][LeakNext]_vars

InitSvc == SvcInit /\ PortIdle /\ HealthIdle /\ LauncherIdle

SpecSvc == InitSvc /\ [][SvcNext]_vars

----------------------------------------------------------------------------
(* Port Manager: properties *)

Holders(port) == {a \in DOMAIN app_ports : app_ports[a] = port}

RecordsOf(al, app_id) == {p \in DOMAIN al : al[p].app_id = app_id}

\* The step is a call of PortManager method op.
Called(op) == last'.seq # last.seq /\ last'.op = op

\* C1: port exclusivity. After any sequence of allocate, release, mark-in-use
\* and stale-sweep calls, two distinct applications holding an allocation
\* hold different ports, and a port is held by at most one application,
\* the one its single allocation record names.
C1_PortExclusivity ==
    /\ \A a \in DOMAIN app_ports : \A b \in DOMAIN app_ports :
          a # b => app_ports[a] # app_ports[b]
    /\ \A p \in AllPorts : Cardinality(Holders(p)) <= 1
    /\ \A a \in DOMAIN app_ports :
          /\ app_ports[a] \in DOMAIN allocations
          /\ allocations[app_ports[a]].app_id = a

\* Two applications hold ports at once, one of them just allocated while
\* another port was bound by a foreign process.
C1_Witness ==
    /\ Cardinality(DOMAIN app_ports) >= 2
    /\ last.op = "allocate" /\ last.ret # NoPort
    /\ busy # {}

\* C2: allocation reuse. When allocate(a) returned a port and the next
\* PortManager call is allocate(a) again, made while that port can still be
\* bound, the second call returns the same port and a has exactly one
\* allocation record afterwards, whatever port the second call prefers.
C2_AllocationReuse ==
    [][ ( /\ last.op = "allocate" /\ last.ret # NoPort
          /\ Called("allocate") /\ last'.app = last.app
          /\ IsPortAvailable(busy, last.ret) )
        => ( /\ last'.ret = last.ret
             /\ last.app \in DOMAIN app_ports'
             /\ app_ports'[last.app] = last.ret
             /\ RecordsOf(allocations', last.app) = {last.ret} ) ]_vars

\* The second allocate of an application took the reuse branch although a
\* lower port of the range was free.
C2_Witness ==
    /\ last.op = "allocate" /\ last.reused
    /\ last.ret > PortStart
    /\ PortStart \notin DOMAIN allocations /\ PortStart \notin busy

\* C3: release of an application without an allocation returns False and
\* changes neither table; release of a holder returns True, removes that
\* application from app_ports and its port from allocations, and leaves every
\* other entry of both tables as it was.
C3_ReleaseFrame ==
    [][ Called("release") =>
        LET a == last'.app IN
        IF a \notin DOMAIN app_ports
        THEN /\ last'.ret = FALSE
             /\ allocations' = allocations
             /\ app_ports' = app_ports
        ELSE /\ last'.ret = TRUE
             /\ DOMAIN app_ports' = (DOMAIN app_ports) \ {a}
             /\ DOMAIN allocations' = (DOMAIN allocations) \ {app_ports[a]}
             /\ \A b \in DOMAIN app_ports' : app_ports'[b] = app_ports[b]
             /\ \A p \in DOMAIN allocations' : allocations'[p] = allocations[p]
      ]_vars

\* A holder was released while another application keeps its allocation.
C3_Witness ==
    /\ last.op = "release" /\ last.ret = TRUE
    /\ last.app \notin DOMAIN app_ports
    /\ DOMAIN app_ports # {}

\* C4: exhausted range. With a range of one port held by a, allocate for
\* another application b returns None, records nothing for b and leaves both
\* tables as they were; when release(a) has emptied that range and the next
\* call is allocate(b), made while no other process has bound the port, b gets
\* that same port; and whenever allocate returns None the caller holds no
\* allocation afterwards.
C4_ExhaustedRange ==
    [][ /\ ( /\ Called("allocate")
             /\ port_end = PortStart
             /\ PortStart \in DOMAIN allocations
             /\ allocations[PortStart].app_id # last'.app )
           => ( /\ last'.ret = NoPort
                /\ last'.app \notin DOMAIN app_ports'
                /\ allocations' = allocations
                /\ app_ports' = app_ports )
        /\ ( /\ last.op = "release" /\ last.ret = TRUE
             /\ port_end = PortStart
             /\ Called("allocate")
             /\ IsPortAvailable(busy, PortStart) )
           => ( /\ last'.ret = PortStart
                /\ app_ports'[last'.app] = PortStart
                /\ allocations'[PortStart].app_id = last'.app )
        /\ ( Called("allocate") /\ last'.ret = NoPort )
           => last'.app \notin DOMAIN app_ports'
      ]_vars

\* The only port of the range is held by one application and the allocate of
\* another one has just failed.
C4_Witness ==
    /\ port_end = PortStart
    /\ last.op = "allocate" /\ last.ret = NoPort
    /\ PortStart \in DOMAIN allocations
    /\ allocations[PortStart].app_id # last.app
    /\ PortStart \notin busy

\* The ports of the range that are neither allocated nor bound.
Selectable == {p \in PortRange(port_end) : p \notin DOMAIN allocations /\ p \notin busy}

\* C28: port selection. For an application holding no allocation, allocate
\* returns the preferred port when one is given and it is in range,
\* unallocated and bindable; otherwise the lowest port of the range that is
\* unallocated and bindable; it fails only when the range has no such port.
\* Every port returned lies inside the configured range.
C28_PortSelection ==
    [][ (Called("allocate") /\ last'.app \notin DOMAIN app_ports) =>
          /\ last'.ret =
                IF last'.pref # NoPort /\ last'.pref \in Selectable
                THEN last'.pref
                ELSE IF Selectable = {} THEN NoPort
                ELSE CHOOSE p \in Selectable : \A q \in Selectable : p <= q
          /\ last'.ret # NoPort => last'.ret \in PortRange(port_end)
      ]_vars

\* An application without an allocation asked for the higher port of the
\* range and got it although the lower one was free.
C28_Witness ==
    /\ last.op = "allocate"
    /\ last.pref = PortStart + 1
    /\ last.ret = PortStart + 1
    /\ PortStart \notin DOMAIN allocations
    /\ PortStart \notin busy

\* The applications whose allocation is older than the threshold on a port
\* that can be bound.
AgedAndBindable == {a \in DOMAIN app_ports : /\ allocations[app_ports[a]].aged
                                            /\ app_ports[a] \notin busy}

\* The sweep has released exactly the applications of set gone, answered
\* their number and left the other allocations as they were.
Reclaimed(gone) ==
    /\ last'.ret = Cardinality(gone)
    /\ DOMAIN app_ports' = (DOMAIN app_ports) \ gone
    /\ DOMAIN allocations' = (DOMAIN allocations) \ {app_ports[a] : a \in gone}
    /\ \A b \in DOMAIN app_ports' : app_ports'[b] = app_ports[b]
    /\ \A p \in DOMAIN allocations' : allocations'[p] = allocations[p]

\* C29 as stated: the stale sweep releases exactly the allocations whose
\* port can be bound and whose age exceeds the threshold, returns the
\* number it released, and leaves every other allocation unchanged.
C29_ReclaimStale ==
    [][ Called("cleanup_stale") => Reclaimed(AgedAndBindable) ]_vars

\* C29, amended: the stale sweep releases exactly the allocations of status
\* allocated whose port can be bound and whose age exceeds the threshold,
\* returns the number it released, and leaves every other allocation (marked
\* in use, port not bindable, or age within the threshold) unchanged.
C29_ReclaimStaleAmended ==
    [][ Called("cleanup_stale") =>
          Reclaimed({a \in AgedAndBindable :
                        allocations[app_ports[a]].status = "allocated"})
      ]_vars

\* A sweep has released an allocation and kept another one that is older
\* than the threshold, on a bindable port, and marked in use.
C29_Witness ==
    /\ last.op = "cleanup_stale"
    /\ last.ret = 1
    /\ \E a \in DOMAIN app_ports :
          /\ allocations[app_ports[a]].aged
          /\ allocations[app_ports[a]].status = "in_use"
          /\ app_ports[a] \notin busy

\* The two maps are inverse to each other.
Inverse(al, ap) ==
    /\ \A a \in DOMAIN ap : ap[a] \in DOMAIN al /\ al[ap[a]].app_id = a
    /\ \A p \in DOMAIN al : /\ al[p].port = p
                             /\ al[p].app_id \in DOMAIN ap
                             /\ ap[al[p].app_id] = p

\* The event loop's call changed the tables for an app other than the one
\* the sweep thread is releasing.
OtherAppMutates ==
    /\ Called("allocate") \/ Called("release")
    /\ <<allocations', app_ports'>> # <<allocations, app_ports>>
    /\ last'.app # releasing.app

\* C34: allocate and release calls for distinct application IDs that run
\* concurrently (the event loop's and the sweep thread's) mutate the
\* allocation table one at a time: no call changes the tables while the
\* sweep thread is inside its release of another app, and after every such
\* call the port table and the app-to-port map are consistent.
C34_ConcurrentExclusivity ==
    [][ OtherAppMutates =>
          /\ releasing.pc = "idle"
          /\ Inverse(allocations', app_ports') ]_vars

\* C36: in every state the app-to-port map and the port table are inverse to
\* each other (an app maps to port p exactly when the table's record for p is
\* owned by that app), and no record of the table has status released.
C36_BookkeepingInverse ==
    /\ Inverse(allocations, app_ports)
    /\ \A p \in DOMAIN allocations : allocations[p].status # "released"

----------------------------------------------------------------------------
(* Registry and discovery: properties *)

\* The step is a call of the AppRegistry / AppManager method op.
RegCalled(op) == reg_last'.seq # reg_last.seq /\ reg_last'.op = op

RegMutated == RegCalled("register") \/ RegCalled("update") \/ RegCalled("unregister")

\* C5: idempotent discovery. A discover() that follows a discover() with no
\* edit of the apps directory (and no other registry call) in between returns
\* 0 and leaves the registry with the same application ids.
C5_IdempotentDiscovery ==
    [][ (reg_last.op = "discover" /\ RegCalled("discover"))
        => (reg_last'.ret = 0 /\ DOMAIN apps' = DOMAIN apps) ]_vars

\* C9: whenever register, update or unregister returns success, the durable
\* store holds exactly the entries of the in-memory registry as of that call.
C9_SuccessMeansPersisted ==
    [][ (RegMutated /\ reg_last'.ret = TRUE)
        => registry_file' = Serialized(apps') ]_vars

\* C10: when the persistence step of register, update or unregister fails,
\* the call reports failure and the durable store is what it was before.
C10_FailedPersistReported ==
    [][ (RegMutated /\ reg_last'.save_failed)
        => (reg_last'.ret = FALSE /\ registry_file' = registry_file) ]_vars

\* The ids of the entries registered for a directory.
EntriesOf(reg, d) == {id \in DOMAIN reg : reg[id].path = PathOf(d)}

\* C13: discover_apps on an empty registry returns the number of
\* directories that hold a valid manifest and registers exactly one entry,
\* with status discovered and the directory's manifest, for each of them; it
\* registers nothing for a directory without manifest or with a rejected one
\* (version missing or malformed, main file absent), and such a directory
\* takes nothing away from the valid ones of the same scan.
C13_FreshDiscovery ==
    [][ (RegCalled("discover") /\ apps = EmptyMap) =>
          /\ reg_last'.ret = Cardinality(ValidDirs(fs))
          /\ Cardinality(DOMAIN apps') = Cardinality(ValidDirs(fs))
          /\ \A d \in Dirs :
                IF d \in ValidDirs(fs)
                THEN \E id \in DOMAIN apps' :
                        /\ EntriesOf(apps', d) = {id}
                        /\ apps'[id].status = EnumStatus("discovered")
                        /\ apps'[id].manifest = AppManifest(d, fs[d])
                        /\ apps'[id].version = fs[d]
                ELSE EntriesOf(apps', d) = {}
      ]_vars

\* A scan of one valid and one rejected directory has just registered the
\* one entry the registry holds.
C13_Witness ==
    /\ reg_last.op = "discover"
    /\ reg_last.ret = 1
    /\ Cardinality(DOMAIN apps) = 1
    /\ \E d \in Dirs : fs[d] \in Rejected
    /\ \E d \in Dirs : fs[d] \in Versions

\* C14: when discover_apps scans a directory whose application is already
\* registered (the id computed from the directory name is in the registry)
\* and the stored path or version differs from the directory's, the entry is
\* updated in place: manifest, path, version and description are those of
\* the directory, the status is discovered, and the registry holds the same
\* ids as before. Stated for scans in which that directory is the only one
\* with a valid manifest.
C14_RediscoveryUpdatesInPlace ==
    [][ \A d \in Dirs :
          ( /\ RegCalled("discover")
            /\ ValidDirs(fs) = {d}
            /\ BaseId(d) \in DOMAIN apps
            /\ \/ apps[BaseId(d)].path # PathOf(d)
               \/ apps[BaseId(d)].version # fs[d] )
          => /\ DOMAIN apps' = DOMAIN apps
             /\ apps'[BaseId(d)].manifest = AppManifest(d, fs[d])
             /\ apps'[BaseId(d)].path = PathOf(d)
             /\ apps'[BaseId(d)].version = fs[d]
             /\ apps'[BaseId(d)].description = DescriptionOf(fs[d])
             /\ apps'[BaseId(d)].status = EnumStatus("discovered")
      ]_vars

\* C11: when the process starts and apps.json can be read, the cache holds
\* exactly the entries of the file that deserialize, each one serializing
\* back to its entry of the file; an entry that does not deserialize is
\* left out and keeps no other entry from being loaded. When the file
\* cannot be read the cache is empty. Loading completes in either case.
C11_LoadSkipsBadEntries ==
    [][ RegCalled("load") =>
          IF reg_last'.ret
          THEN /\ DOMAIN apps' = {id \in DOMAIN registry_file :
                                     Deserializes(registry_file[id])}
               /\ \A id \in DOMAIN apps' : ToDict(apps'[id]) = registry_file[id]
          ELSE apps' = EmptyMap
      ]_vars

\* A load has just run on a file with an entry that does not deserialize and
\* one that does.
C11_Witness ==
    /\ reg_last.op = "load"
    /\ reg_last.ret
    /\ \E id \in DOMAIN registry_file : ~Deserializes(registry_file[id])
    /\ apps # EmptyMap

\* Two entries are the same logical entry: equal field by field, a status
\* being known by its value (an AppStatus member equals its value).
SameEntry(e1, e2) ==
    [e1 EXCEPT !.status = e1.status.value] = [e2 EXCEPT !.status = e2.status.value]

\* C12: every entry a registry holds, whatever its status and type and
\* whether its timestamps are set or not, serializes to a dict that
\* deserializes to the same logical entry; and a registry that starts on the
\* file another instance wrote holds the same ids with the same logical
\* entries.
C12_RoundTrip ==
    [][ /\ \A id \in DOMAIN apps' :
              /\ Deserializes(ToDict(apps'[id]))
              /\ SameEntry(FromDict(ToDict(apps'[id])), apps'[id])
        /\ ( /\ RegCalled("load")
             /\ reg_last'.ret
             /\ registry_file = Serialized(apps) )
           => /\ DOMAIN apps' = DOMAIN apps
              /\ \A id \in DOMAIN apps : SameEntry(apps'[id], apps[id])
      ]_vars

\* A load has just brought back a service and a streamlit entry, one of them
\* with a plain-string status before the load, one with a timestamp set and
\* one without.
C12_Witness ==
    /\ reg_last.op = "load"
    /\ reg_last.ret
    /\ {apps[id].type : id \in DOMAIN apps} = AppTypes
    /\ \E id \in DOMAIN apps : apps[id].runtime_info.started_at # NoTime
    /\ \E id \in DOMAIN apps : apps[id].runtime_info.started_at = NoTime
    /\ \E id \in DOMAIN apps : apps[id].status.value = "stopping"

----------------------------------------------------------------------------
(* Health Monitor properties *)

\* C6: with failure_threshold = 2 and max_failures = 3, a running app whose
\* health endpoint fails through three consecutive rounds of the monitoring
\* loop has, when the first round is over, its registry status still running
\* and one failure counted; when the second is over, the status error and no
\* restart attempted; when the third is over, exactly one restart attempted,
\* and the failure counter at zero if that restart succeeded.
C6_EscalationOrdering ==
    \A a \in HealthApps :
        (hm_obs[a].watched /\ hm_round.phase = "sleep") =>
            /\ hm_obs[a].rounds = 1 =>
                  /\ apps[a].status.value = "running"
                  /\ GetCount(failure_counts, a) = 1
                  /\ hm_obs[a].restarts = 0
            /\ hm_obs[a].rounds = 2 =>
                  /\ apps[a].status.value = "error"
                  /\ hm_obs[a].restarts = 0
            /\ hm_obs[a].rounds = 3 =>
                  /\ hm_obs[a].restarts = 1
                  /\ hm_obs[a].restart_ok => GetCount(failure_counts, a) = 0

\* The round's task for app a has just run _check_app_health.
Checked(a) ==
    /\ hm_round.phase = "round"
    /\ a \in hm_round.pending
    /\ a \notin hm_round'.pending
    /\ hm_last'.app = a

\* The outcomes of a check that are no 200 response with a recognized
\* status: an unrecognized body, another status code, a timeout, a
\* connection failure.
Unanswered == Failing \ {"error"}

\* C20 as stated: after a check that receives a 200 response with status
\* good or warning the app's failure counter is zero; after a check that
\* ends in a non-200 response, a timeout, a connection failure or an
\* unrecognized body the counter is exactly one more than before the check
\* and the latest result for the app is error.
C20_CounterAfterCheck ==
    [][ \A a \in HealthApps :
          Checked(a) =>
            /\ hm_last'.outcome \in Passing =>
                  GetCount(failure_counts', a) = 0
            /\ hm_last'.outcome \in Unanswered =>
                  /\ GetCount(failure_counts', a) = GetCount(failure_counts, a) + 1
                  /\ health_results'[a] = "error"
      ]_vars

\* C20, amended: after a check that receives a 200 response with status
\* good or warning the app's failure counter is zero; after a check that
\* ends in a non-200 response, a timeout, a connection failure or an
\* unrecognized body the latest result for the app is error and the counter
\* is exactly one more than before the check, except when that count
\* reaches max_failures and the restart the check then attempts succeeds:
\* the counter is then zero.
C20_CounterAfterCheckAmended ==
    [][ \A a \in HealthApps :
          Checked(a) =>
            /\ hm_last'.outcome \in Passing =>
                  GetCount(failure_counts', a) = 0
            /\ hm_last'.outcome \in Unanswered =>
                  /\ health_results'[a] = "error"
                  /\ hm_last'.restart_ok =>
                        GetCount(failure_counts, a) + 1 >= hm_config.max_failures
                  /\ GetCount(failure_counts', a) =
                        IF hm_last'.restart_ok THEN 0
                        ELSE GetCount(failure_counts, a) + 1
      ]_vars

\* A check has timed out, brought the count to max_failures and restarted
\* the service successfully: the counter is zero and the result error.
C20_Witness ==
    /\ hm_last.outcome = "timeout"
    /\ hm_last.restarted
    /\ hm_last.restart_ok
    /\ GetCount(failure_counts, hm_last.app) = 0
    /\ hm_last.app \in DOMAIN health_results
    /\ health_results[hm_last.app] = "error"

\* The loop over the results of gather has just handled the exception that
\* ended the task of app t.
RaisedHandled(t) ==
    /\ t \in hm_round.raised
    /\ hm_round'.phase = "round"
    /\ t \notin hm_round'.raised

\* C21: an exception that ends the check of one app of a round is recorded
\* as a failure of that app only: its counter goes up by one (or to zero
\* when the restart it triggers succeeds) and its latest result is error,
\* while no other app's counter, latest result or registry status changes.
C21_FailureIsolation ==
    [][ \A t \in HealthApps :
          RaisedHandled(t) =>
            /\ GetCount(failure_counts', t) =
                  IF hm_last'.restart_ok THEN 0
                  ELSE GetCount(failure_counts, t) + 1
            /\ health_results'[t] = "error"
            /\ \A b \in HealthApps \ {t} :
                  /\ GetCount(failure_counts', b) = GetCount(failure_counts, b)
                  /\ (b \in DOMAIN health_results') = (b \in DOMAIN health_results)
                  /\ b \in DOMAIN health_results =>
                        health_results'[b] = health_results[b]
                  /\ apps'[b].status = apps[b].status
      ]_vars

\* The step is a call of start_monitoring or stop_monitoring.
MonCalled(op) == hm_mon'.seq # hm_mon.seq /\ hm_mon'.op = op

\* _running, the loop task, the session and the counts of both.
MonState(mon) == <<mon.running, mon.task, mon.session, mon.loops, mon.sessions>>

\* C22: start_monitoring while running creates no second loop task and no
\* second session and leaves the round in flight alone; stop_monitoring
\* while stopped changes nothing; after stop_monitoring the monitor is not
\* running, no loop task is alive, and the session is closed and cleared.
C22_StartStopIdempotent ==
    [][ /\ (MonCalled("start") /\ hm_mon.running) =>
              /\ MonState(hm_mon') = MonState(hm_mon)
              /\ hm_round' = hm_round
        /\ (MonCalled("stop") /\ ~hm_mon.running) =>
              /\ MonState(hm_mon') = MonState(hm_mon)
              /\ hm_round' = hm_round
        /\ MonCalled("stop") =>
              /\ ~hm_mon'.running
              /\ hm_mon'.task # "active"
              /\ hm_mon'.loops = 0
              /\ hm_mon'.session = "none"
              /\ hm_mon'.sessions = 0
        /\ (MonCalled("start") \/ MonCalled("stop")) =>
              /\ failure_counts' = failure_counts
              /\ health_results' = health_results
              /\ apps' = apps
      ]_vars

\* start_monitoring was called on a monitor that was running, in the middle
\* of a round, after checks had been recorded.
C22_Witness ==
    /\ hm_mon.op = "start"
    /\ hm_mon.running
    /\ hm_mon.loops = 1
    /\ hm_round.phase = "round"
    /\ hm_round.pending # {}
    /\ DOMAIN health_results # {}

\* C23: while the monitor reports itself stopped no check result is
\* applied: no failure counter, latest result or registry entry changes and
\* no check or restart is recorded, until monitoring is started again.
C23_CancellationSafety ==
    [][ ~hm_mon.running =>
          /\ failure_counts' = failure_counts
          /\ health_results' = health_results
          /\ apps' = apps
          /\ registry_file' = registry_file
          /\ hm_last' = hm_last
      ]_vars

\* The monitor was stopped while checks of a round were in flight, one of
\* them in the sleep that follows a successful restart.
C23_Witness ==
    /\ ~hm_mon.running
    /\ hm_mon.op = "stop"
    /\ hm_mon.aborted
    /\ hm_last.restarted
    /\ hm_last.restart_ok

\* C30: when the restart a health check attempts fails, the app's registry
\* status is error and its error message reflects the failed restart: it is
\* no longer just the message the failure handling wrote before the attempt.
C30_FailedRestartSurfaced ==
    [][ \A a \in HealthApps :
          (Checked(a) /\ hm_last'.restarted /\ ~hm_last'.restart_ok) =>
            /\ apps'[a].status = EnumStatus("error")
            /\ apps'[a].runtime_info.error_message # "Health check failures"
      ]_vars

\* C39: under any interleaving of start_monitoring and stop_monitoring, a
\* start issued while a stop awaits the cancelled task included, a monitor
\* that reports itself running has an open HTTP session and exactly one
\* live loop task, and no round runs without an open session.
C39_StartStopInterleaving ==
    /\ hm_mon.running => hm_mon.session = "open" /\ hm_mon.loops = 1
    /\ hm_round.phase = "round" => hm_mon.session = "open"

\* C35: in every reachable state, also after any update_config call, the
\* configured max_failures is greater than or equal to failure_threshold.
C35_ConfigInvariant ==
    hm_config.max_failures >= hm_config.failure_threshold

----------------------------------------------------------------------------
(* Streamlit TTL manager properties *)

\* The live processes that were spawned for an app.
LiveOf(app_id) == {pid \in DOMAIN os_procs : os_procs[pid] = app_id}

\* Both threads have returned from launch_streamlit_app for the same app,
\* first entered the lock before second, and first was answered with the
\* endpoint of a process that is still alive.
BothLaunched(first, second) ==
    /\ first # second
    /\ threads[first].pc = "done"
    /\ threads[second].pc = "done"
    /\ threads[first].app = threads[second].app
    /\ threads[first].ticket < threads[second].ticket
    /\ threads[first].resp # NoEndpoint
    /\ PidExists(os_procs, threads[first].resp.pid)

\* C7: when two launch calls for the same app ID have run, in whatever way
\* their steps and the environment's interleaved, and the first succeeded
\* with a process that is still alive, then that process is the only live
\* process of the app, the app holds exactly one port allocation, and the
\* second call's response names the same process ID and port as the first.
C7_LaunchIdempotence ==
    \A first \in Threads, second \in Threads :
        BothLaunched(first, second) =>
            LET app_id == threads[first].app
                resp == threads[first].resp
            IN  /\ threads[second].resp = resp
                /\ LiveOf(app_id) = {resp.pid}
                /\ app_id \in DOMAIN app_ports
                /\ app_ports[app_id] = resp.port
                /\ RecordsOf(allocations, app_id) = {resp.port}

\* Two calls for the same app overlapped: the second reached the lock while
\* it was held, and both have returned with the first's process alive.
C7_Witness ==
    \E first \in Threads, second \in Threads :
        /\ BothLaunched(first, second)
        /\ threads[second].contended

\* The step in which thread t runs the body of the method op.
BodyStep(t, op) ==
    /\ threads[t].pc = "body"
    /\ threads[t].op = op
    /\ threads'[t].pc = "exit"

\* The step in which the background sweep does its work and lets the lock go.
SweepStep == st_lock = Sweeper /\ st_lock' = NoThread

\* The app's tracker entry, process and port allocation are what they were.
Untouched(a) ==
    /\ a \in DOMAIN st_processes'
    /\ st_processes'[a] = st_processes[a]
    /\ PidExists(os_procs, st_processes[a].pid) =>
           PidExists(os_procs', st_processes[a].pid)
    /\ a \in DOMAIN app_ports => (a \in DOMAIN app_ports' /\ app_ports'[a] = app_ports[a])

\* C25: touch_app on a tracked app leaves it tracked with its inactivity
\* clock reset (not idle past the TTL), and a sweep stops no tracked app whose
\* time since its last touch or launch does not exceed the TTL: its tracker
\* entry, process and port stay as they were. So an app touched at least once
\* per window, whose clock therefore never exceeds the TTL, is never stopped
\* by the sweep.
C25_TouchResetsClock ==
    [][ /\ \A t \in Threads :
              (BodyStep(t, "touch") /\ threads[t].app \in DOMAIN st_processes) =>
                  /\ threads[t].app \in DOMAIN st_processes'
                  /\ ~st_processes'[threads[t].app].expired
        /\ SweepStep =>
              \A a \in DOMAIN st_processes :
                  ~st_processes[a].expired => Untouched(a) ]_vars

\* A touch has just acted on a tracked app that an earlier sweep had passed
\* over, and the app is still tracked with its process alive.
C25_Witness ==
    \E t \in Threads :
        /\ threads[t].op = "touch"
        /\ threads[t].pc = "exit"
        /\ threads[t].app \in DOMAIN st_processes
        /\ threads[t].app \in sweep_last.spared
        /\ PidExists(os_procs, st_processes[threads[t].app].pid)

\* The step in which thread t's launch finds the app tracked with a process
\* that is no longer alive.
FindsDead(t) ==
    /\ threads[t].pc = "check"
    /\ threads'[t].pc # "check"
    /\ threads[t].app \in DOMAIN st_processes
    /\ ~PidExists(os_procs, st_processes[threads[t].app].pid)

\* The dead entry is gone from the tracker and the app holds no port.
DeadEntryCleaned(t) ==
    /\ threads[t].app \notin DOMAIN st_processes'
    /\ threads[t].app \notin DOMAIN app_ports'
    /\ RecordsOf(allocations', threads[t].app) = {}

\* The step in which thread t's launch, having cleaned up a dead entry, runs
\* "Launch new instance".
RelaunchStep(t) ==
    /\ threads[t].pc = "launch"
    /\ threads[t].dead # 0
    /\ threads'[t].pc = "exit"

\* The tracker holds the app's entry, naming a live process other than the
\* dead one, and the app holds exactly one port allocation, the tracker's.
FreshEntry(t) ==
    LET app_id == threads[t].app
    IN  /\ app_id \in DOMAIN st_processes'
        /\ st_processes'[app_id].pid # threads[t].dead
        /\ PidExists(os_procs', st_processes'[app_id].pid)
        /\ LiveOf(app_id)' = {st_processes'[app_id].pid}
        /\ app_id \in DOMAIN app_ports'
        /\ app_ports'[app_id] = st_processes'[app_id].port
        /\ RecordsOf(allocations', app_id) = {st_processes'[app_id].port}

\* C26: when launch finds the tracker holding an entry whose process is no
\* longer alive, it removes the entry and releases its port, and its fresh
\* launch leaves the tracker with one entry for the app naming the new live
\* process and the app with exactly one port allocation, the tracker's.
C26_DeadEntryRelaunch ==
    [][ \A t \in Threads :
            /\ FindsDead(t) => DeadEntryCleaned(t)
            /\ RelaunchStep(t) => FreshEntry(t) ]_vars

\* C26 as amended: the same, for a fresh launch that succeeds; one that
\* fails (no port, no main file, Popen raising) leaves no entry and no port.
C26_DeadEntryRelaunchAmended ==
    [][ \A t \in Threads :
            /\ FindsDead(t) => DeadEntryCleaned(t)
            /\ RelaunchStep(t) =>
                  IF threads'[t].resp # NoEndpoint
                  THEN FreshEntry(t) /\ threads'[t].resp.pid = st_processes'[threads[t].app].pid
                  ELSE DeadEntryCleaned(t) ]_vars

\* A launch that cleaned up a dead entry has just launched the app afresh.
C26_Witness ==
    \E t \in Threads :
        /\ threads[t].pc = "exit"
        /\ threads[t].dead # 0
        /\ threads[t].resp # NoEndpoint
        /\ threads[t].app \in DOMAIN st_processes
        /\ st_processes[threads[t].app].pid = threads[t].resp.pid
        /\ PidExists(os_procs, threads[t].resp.pid)

\* Thread t is inside the with statement of the method it called.
InCritical(t) == threads[t].pc \in {"check", "launch", "body", "exit"}

\* What the tracker holds apart from the clocks: app -> pid and port.
Table(tracker) ==
    [a \in DOMAIN tracker |-> <<tracker[a].pid, tracker[a].port>>]

\* Every tracked app holds exactly one port allocation, its tracker's port.
TrackedHoldPorts ==
    \A a \in DOMAIN st_processes :
        /\ a \in DOMAIN app_ports
        /\ app_ports[a] = st_processes[a].port
        /\ RecordsOf(allocations, a) = {st_processes[a].port}

\* A port allocation that goes away was that of a tracked app, whose entry
\* goes with it: no release without an entry of its own.
ReleasesMatchEntries ==
    \A p \in (DOMAIN allocations) \ (DOMAIN allocations') :
        LET a == allocations[p].app_id
        IN  /\ a \in DOMAIN st_processes
            /\ st_processes[a].port = p
            /\ a \notin DOMAIN st_processes'

\* C27: a request thread is inside the critical section of launch, stop,
\* touch or stop_all only while it holds the lock, so no two threads, and no
\* thread and the sweep, are inside at the same time; the process table and
\* the port allocations change only in steps of the lock's holder; every
\* tracked app always holds its tracker's port allocation; and every release
\* of a port is the release of one tracker entry's port, removed with it.
C27_MutualExclusion ==
    /\ [](\A t \in Threads : InCritical(t) => st_lock = t)
    /\ []TrackedHoldPorts
    /\ [][ /\ ReleasesMatchEntries
           /\ (Table(st_processes') # Table(st_processes) \/ app_ports' # app_ports) =>
                  (st_lock # NoThread /\
                   \A t \in Threads : threads'[t] # threads[t] => st_lock = t) ]_vars

\* The sweep holds the lock with an app to stop, while one thread waits to
\* stop the app and the other to launch it.
C27_Witness ==
    /\ st_lock = Sweeper
    /\ IdleApps(st_processes) # {}
    /\ \E t \in Threads, u \in Threads :
           /\ threads[t].pc = "waiting" /\ threads[t].op = "stop"
           /\ threads[u].pc = "waiting" /\ threads[u].op = "launch"
           /\ threads[t].app \in IdleApps(st_processes)
           /\ threads[u].app = threads[t].app

\* A touch or a launch of the app has just run under the lock.
Accessed(a) ==
    \E t \in Threads :
        /\ threads[t].pc = "exit"
        /\ threads[t].op \in {"touch", "launch"}
        /\ threads[t].app = a

\* The app is not tracked and holds no port allocation.
Swept(a) ==
    /\ a \notin DOMAIN st_processes
    /\ a \notin DOMAIN app_ports
    /\ RecordsOf(allocations, a) = {}

\* C24: with the sweep scheduled fairly, a tracked app is eventually touched
\* or launched again, or else it is stopped: its tracker entry is removed and
\* its port allocation released. An app that is never touched or launched
\* again is therefore eventually stopped.
C24_SweepLiveness ==
    \A a \in ReaperApps :
        (a \in DOMAIN st_processes) ~> (Swept(a) \/ Accessed(a))

\* The latest sweep stopped an app: it is untracked and without a port, and
\* no request is under way.
C24_Witness ==
    \E a \in sweep_last.stopped :
        /\ Swept(a)
        /\ \A t \in Threads : threads[t].pc = "idle"

----------------------------------------------------------------------------
(* Background-process launcher properties *)

ProcCalled(op) == proc_last'.seq # proc_last.seq /\ proc_last'.op = op

\* Ports of the range that are neither allocated nor bound.
FreePorts == {p \in PortRange(port_end) : p \notin DOMAIN allocations /\ p \notin busy}

\* C8: when the launcher tracks an app whose process was killed from
\* outside, the next status call returns error, and after it the tracker
\* holds no entry for the app and the app holds no port allocation; a start
\* that follows it, with the main file in place, the process spawning and a
\* port of the range free, returns True and tracks a new live process,
\* other than the dead one, with a port allocated to the app; the cached
\* registry entry names that pid and port.
C8_UnexpectedDeath ==
    [][ /\ \A a \in AppIds :
            ( /\ ProcCalled("status")
              /\ proc_last'.app = a
              /\ a \in DOMAIN processes
              /\ ~PidExists(os_procs, processes[a].pid) )
            => /\ proc_last'.ret = "error"
               /\ a \notin DOMAIN processes'
               /\ a \notin DOMAIN app_ports'
               /\ RecordsOf(allocations', a) = {}
        /\ \A a \in AppIds :
            ( /\ proc_last.op = "status"
              /\ proc_last.ret = "error"
              /\ proc_last.app = a
              /\ ProcCalled("start")
              /\ proc_last'.app = a
              /\ proc_last'.env_ok
              /\ FreePorts # {} )
            => /\ proc_last'.ret = TRUE
               /\ a \in DOMAIN processes'
               /\ proc_last'.died = proc_last.pid
               /\ processes'[a].pid # proc_last.pid
               /\ PidExists(os_procs', processes'[a].pid)
               /\ ~PidExists(os_procs, processes'[a].pid)
               /\ a \in DOMAIN app_ports'
               /\ app_ports'[a] = processes'[a].port
               /\ RecordsOf(allocations', a) = {processes'[a].port}
               /\ apps'[a].runtime_info.assigned_port = processes'[a].port
               /\ apps'[a].runtime_info.process_id = IntToStr(processes'[a].pid)
      ]_vars

\* A start has just succeeded right after a status call reported the death
\* of the app's earlier process.
C8_Witness ==
    /\ proc_last.op = "start"
    /\ proc_last.ret = TRUE
    /\ proc_last.died # 0
    /\ proc_last.app \in DOMAIN processes
    /\ processes[proc_last.app].pid # proc_last.died
    /\ PidExists(os_procs, processes[proc_last.app].pid)
    /\ ~PidExists(os_procs, proc_last.died)
    /\ app_ports[proc_last.app] = processes[proc_last.app].port

C16_StartAtomicity ==
    [][ \A a \in AppIds :
          ( /\ ProcCalled("start")
            /\ proc_last'.app = a
            /\ a \in DOMAIN apps
            /\ apps[a].type = "service"
            /\ proc_last'.ret = FALSE )
          => /\ a \notin DOMAIN app_ports'
             /\ RecordsOf(allocations', a) = {}
             /\ a \notin DOMAIN processes'
             /\ DOMAIN os_procs' \subseteq DOMAIN os_procs
      ]_vars

\* C17: after stop_app returns for a tracked app, whether its process was
\* alive or already gone, the app holds no port allocation, the tracker has
\* no entry for it and the tracked process is not alive; after stop_app for
\* an app that is not tracked the same holds.
C17_StopReleases ==
    [][ \A a \in AppIds :
          (ProcCalled("stop") /\ proc_last'.app = a)
          => /\ a \notin DOMAIN app_ports'
             /\ RecordsOf(allocations', a) = {}
             /\ a \notin DOMAIN processes'
             /\ a \in DOMAIN processes =>
                   /\ proc_last'.ret = TRUE
                   /\ ~PidExists(os_procs', processes[a].pid)
      ]_vars

\* A stop has just returned True for an app that was tracked, and left it
\* without tracker entry and without port.
C17_Witness ==
    /\ proc_last.op = "stop"
    /\ proc_last.ret = TRUE
    /\ proc_last.pid # 0
    /\ proc_last.app \notin DOMAIN processes
    /\ proc_last.app \notin DOMAIN app_ports

\* The step is a status call that finds the tracked process of app a dead,
\* or a start of the registered service app a that fails in spawning.
DetectsFailure(a) ==
    /\ proc_last'.app = a
    /\ \/ /\ ProcCalled("status")
          /\ a \in DOMAIN processes
          /\ ~PidExists(os_procs, processes[a].pid)
       \/ /\ ProcCalled("start")
          /\ a \in DOMAIN apps
          /\ apps[a].type = "service"
          /\ ~proc_last'.env_ok
          /\ proc_last'.ret = FALSE

\* C31: when the background launcher detects the unexpected death of a
\* tracked process (a status call) or a spawn error (a failed start), the
\* app's registry status becomes error, its RuntimeInfo error message is
\* set, and the app holds no port allocation.
C31_FailureRecorded ==
    [][ \A a \in AppIds :
          DetectsFailure(a) =>
              /\ a \in DOMAIN apps' =>
                    /\ apps'[a].status.value = "error"
                    /\ apps'[a].runtime_info.error_message # None
              /\ a \notin DOMAIN app_ports'
              /\ RecordsOf(allocations', a) = {}
      ]_vars

\* The lifecycle of the status field, in order.
Lifecycle ==
    <<"discovered", "installing", "ready", "starting", "running", "stopping",
      "stopped">>

\* to is the successor of from in the lifecycle, or error reached from a
\* status that is not terminal (neither stopped nor error).
LegalMove(from, to) ==
    \/ \E i \in 1 .. (Len(Lifecycle) - 1) :
          from = Lifecycle[i] /\ to = Lifecycle[i + 1]
    \/ to = "error" /\ from \notin {"stopped", "error"}

\* C32: every change of a registered app's status made by a launcher call
\* is a step to the successor of its current status in discovered ->
\* installing -> ready -> starting -> running -> stopping -> stopped, or a
\* move to error from a non-terminal status.
C32_StatusStateMachine ==
    [][ \A a \in (DOMAIN apps) \cap (DOMAIN apps') :
          apps'[a].status.value # apps[a].status.value =>
              LegalMove(apps[a].status.value, apps'[a].status.value) ]_vars

\* The durable entry of app a says what the cached entry says of its
\* status, assigned port and process id.
DurableAgrees(file, reg, a) ==
    /\ a \in DOMAIN file
    /\ file[a].status = ToDict(reg[a]).status
    /\ file[a].runtime_info.assigned_port = reg[a].runtime_info.assigned_port
    /\ file[a].runtime_info.process_id = reg[a].runtime_info.process_id

\* C33: after a start or stop of the background launcher returns, the
\* durable registry entry of the app agrees with the cached entry on
\* status, assigned port and process id: after a successful start it
\* records the port and pid, after a stop it records them as cleared.
C33_NoPersistenceBypass ==
    [][ \A a \in DOMAIN apps' :
          ( /\ ProcCalled("start") \/ ProcCalled("stop")
            /\ proc_last'.app = a )
          => DurableAgrees(registry_file', apps', a) ]_vars

\* The tracker's entry for app_id names a live process.
TrackedLive(tracker, app_id) ==
    app_id \in DOMAIN tracker /\ PidExists(os_procs, tracker[app_id].pid)

\* C37: every application a launcher tracks with a live process is mapped by
\* the port manager to the port recorded in the tracker: nothing, the stale
\* sweep and allocations of other apps included, releases that port or hands
\* it to another application while the process is tracked as live.
C37_TrackerAllocatorAgreement ==
    \A a \in AppIds : \A tracker \in {processes, st_processes} :
        TrackedLive(tracker, a) =>
            /\ a \in DOMAIN app_ports
            /\ app_ports[a] = tracker[a].port
            /\ allocations[tracker[a].port].app_id = a

\* No request is inside the Streamlit manager and no sweep runs; the other
\* operations are single steps.
NoOperationInProgress ==
    /\ \A t \in Threads : threads[t].pc = "idle"
    /\ st_lock = NoThread

\* The app's port is in use or reserved for a start: a launcher tracks the
\* app, the app is ready, or it runs under the service manager.
PortAccountedFor(a) ==
    \/ a \in DOMAIN processes
    \/ a \in DOMAIN st_processes
    \/ a \in DOMAIN apps /\ apps[a].status.value \in {"ready", "running"}

C40_OneTrackedProcess ==
    \A a \in AppIds :
        /\ Cardinality(LiveOf(a)) <= 1
        /\ \A pid \in LiveOf(a) : a \in DOMAIN processes /\ processes[a].pid = pid

\* A restart has replaced a tracked process by a new one, which lives.
C40_Witness ==
    /\ proc_last.op = "restart"
    /\ proc_last.ret = TRUE
    /\ proc_last.pid # 0
    /\ proc_last.app \in DOMAIN processes
    /\ processes[proc_last.app].pid # proc_last.pid
    /\ PidExists(os_procs, processes[proc_last.app].pid)

----------------------------------------------------------------------------
(* Service manager properties *)

SvcCalled(op) == svc_last'.seq # svc_last.seq /\ svc_last'.op = op

\* C18: for a registered app, start_service with systemctl exiting 0 sets
\* the registry status to running and returns True; with another exit code
\* it sets the status to error, puts the captured stderr into the error
\* message and returns False; stop_service with exit code 0 sets the status
\* to stopped and returns True; a stop that fails returns False and leaves
\* the registry as it was.
C18_ServiceStatusUpdates ==
    [][ \A a \in DOMAIN apps :
          /\ (SvcCalled("start") /\ svc_last'.app = a /\ svc_last'.outcome = "ok")
             => /\ svc_last'.ret = TRUE
                /\ apps'[a].status = EnumStatus("running")
          /\ (SvcCalled("start") /\ svc_last'.app = a /\ svc_last'.outcome = "fail")
             => /\ svc_last'.ret = FALSE
                /\ apps'[a].status = EnumStatus("error")
                /\ apps'[a].runtime_info.error_message[2] = Stderr
          /\ (SvcCalled("stop") /\ svc_last'.app = a /\ svc_last'.outcome = "ok")
             => /\ svc_last'.ret = TRUE
                /\ apps'[a].status = EnumStatus("stopped")
          /\ (SvcCalled("stop") /\ svc_last'.app = a /\ svc_last'.outcome # "ok")
             => /\ svc_last'.ret = FALSE
                /\ apps' = apps
                /\ registry_file' = registry_file
      ]_vars

\* A stop has just failed on an app that an earlier start had set running.
C18_Witness ==
    /\ svc_last.op = "stop"
    /\ svc_last.outcome = "fail"
    /\ svc_last.ret = FALSE
    /\ svc_last.app \in DOMAIN apps
    /\ apps[svc_last.app].status = EnumStatus("running")

\* C19: remove_service attempts all four steps (stop, disable, deletion of
\* the unit file, daemon reload) whatever the earlier steps ended in, and
\* returns True exactly when the unit file is gone afterwards.
C19_RemoveToleratesFailure ==
    [][ SvcCalled("remove") =>
          /\ svc_last'.tried = {"stop", "disable", "unlink", "reload"}
          /\ svc_last'.ret = (svc_last'.app \notin unit_files')
      ]_vars

====
